---- MODULE Spec2Model ----
(***************************************************************************)
(* Career_Suite v4.5: the three-stage resume tailoring pipeline.           *)
(*                                                                         *)
(*   getMasterResumeData  (MasterResumeData.gs)  sheet rows -> record      *)
(*   runStage1_AnalyzeAndScore        (Main.gs)  record -> scoring table   *)
(*   runStage2_TailorSelectedBullets  (Main.gs)  table -> table            *)
(*   runStage3_BuildAndGenerateDocument (Main.gs) record, table -> record  *)
(*   createFormattedResumeDoc  (DocumentService.gs)  record -> document    *)
(*                                                                         *)
(* Text.  A cell or a string of the program is a sequence of lexical       *)
(* chunks (TLA+ strings).  The chunk " " is white space: it is what        *)
(* String.prototype.trim removes and what a blank cell is made of.  Case   *)
(* conversion acts chunk by chunk (UpperTok, LowerTok).  The empty         *)
(* sequence is the empty string.                                           *)
(*                                                                         *)
(* Scores.  A relevance score is an integer number of thousandths as the   *)
(* LLM returns it and an integer number of hundredths once toFixed(2) has  *)
(* written it into the scoring table.                                      *)
(***************************************************************************)
EXTENDS Integers, Sequences, FiniteSets, TLC

VARIABLES
    resumeSheet,   \* rows of the "ResumeData" sheet
    jdSheet,       \* the "JDAnalysisData" sheet: [exists, a2]
    scoringSheet,  \* the "BulletScoringResults" sheet: [exists, rows] (data rows)
    pc,            \* position of the running stage ("idle", "returned", ...)
    master,        \* masterResumeObject of the running (or last) stage or load
    jd,            \* jdAnalysis of the running (or last) stage
    todo,          \* stage 1: the units not yet scored
    acc,           \* stage 1: allScoredBulletsDataForSheet
    matchLog,      \* stage 1: what matchResumeSection returned, unit by unit
    s2rows,        \* stage 2: scoringSheetDataRows (the in-memory copy)
    s2i,           \* stage 2: loop index i (1-based)
    s2read,        \* stage 2: the rows as getValues() returned them
    s2ok,          \* stage 2: bulletsSuccessfullyTailored
    result,        \* what the last stage returned, or the exception it threw
    finalRecord,   \* stage 3: finalTailoredResumeObject
    llmCalls,      \* LLM requests made by the running (or last) stage
    edits,         \* reviewer edits made so far
    runs,          \* stage runs begun so far
    call,          \* the last call of a function checked on its own: its name
                   \* and arguments
    ret,           \* what that call returned
    drive          \* the copies of the template in Drive, oldest first

vars == <<resumeSheet, jdSheet, scoringSheet, pc, master, jd, todo, acc, matchLog,
          s2rows, s2i, s2read, s2ok, result, finalRecord, llmCalls, edits, runs,
          call, ret, drive>>

----------------------------------------------------------------------------
(* Bounds of the model *)

MaxEdits == 1          \* reviewer edits per behaviour
MaxRuns == 2           \* stage runs per behaviour
MaxCapRows == 6        \* rows of one item in the tables of InitAssemble
MaxParseRows == 1      \* data rows of a section in the sheets of InitParse
MaxScanRows == 4       \* rows of a sheet of any rows in InitScan
MaxBlocks == 2         \* sections of a sheet of sections in InitScan
MaxBlockRows == 1      \* data rows of a section in a sheet of sections

----------------------------------------------------------------------------
(* Program constants: Constants.gs *)

\* 0.01, in hundredths
STAGE3_FINAL_INCLUSION_SCORE_THRESHOLD == 1
STAGE3_MAX_BULLETS_PER_JOB == 5
STAGE3_MAX_BULLETS_PER_PROJECT == 5
STAGE3_MAX_HIGHLIGHTS_FOR_SUMMARY == 4
NUM_DEDICATED_BULLET_COLUMNS == 3

\* the absent section title (null)
Null == "null"

----------------------------------------------------------------------------
(* Text *)

WS == " "

RECURSIVE TrimLeft(_)
TrimLeft(t) == IF t # <<>> /\ Head(t) = WS THEN TrimLeft(Tail(t)) ELSE t

RECURSIVE TrimRight(_)
TrimRight(t) ==
    IF t # <<>> /\ t[Len(t)] = WS THEN TrimRight(SubSeq(t, 1, Len(t) - 1)) ELSE t

\* String.prototype.trim
Trim(t) == TrimRight(TrimLeft(t))

NOT_SUITABLE == "Original bullet not suitable for significant tailoring towards this role."
not_suitable == "original bullet not suitable for significant tailoring towards this role."
NOT_SUITABLE_UPPER == "ORIGINAL BULLET NOT SUITABLE FOR SIGNIFICANT TAILORING TOWARDS THIS ROLE."

UpperTok(k) ==
    CASE k \in {"yes", "Yes"} -> "YES"
      [] k \in {"true", "True"} -> "TRUE"
      [] k = "x" -> "X"
      [] k = "no" -> "NO"
      [] k \in {"tailor_fail", "Tailor_Fail"} -> "TAILOR_FAIL"
      [] k = "error:" -> "ERROR:"
      [] k \in {NOT_SUITABLE, not_suitable} -> NOT_SUITABLE_UPPER
      [] k \in {"Experience", "experience"} -> "EXPERIENCE"
      [] k \in {"Education", "education"} -> "EDUCATION"
      [] k \in {"Projects", "projects"} -> "PROJECTS"
      [] k \in {"Summary", "summary"} -> "SUMMARY"
      [] k \in {"Personal Info", "personal info"} -> "PERSONAL INFO"
      [] k \in {"Technical Skills", "technical skills"} -> "TECHNICAL SKILLS"
      [] k \in {"Certificates", "certificates"} -> "CERTIFICATES"
      [] k \in {"Leadership", "leadership"} -> "LEADERSHIP"
      [] k \in {"Involvement", "involvement"} -> "INVOLVEMENT"
      [] k \in {"Honors", "honors"} -> "HONORS"
      [] k \in {"Awards", "awards"} -> "AWARDS"
      [] k \in {"Present", "present"} -> "PRESENT"
      [] OTHER -> k

LowerTok(k) ==
    CASE k \in {NOT_SUITABLE, NOT_SUITABLE_UPPER} -> not_suitable
      [] k \in {"YES", "Yes"} -> "yes"
      [] k \in {"TAILOR_FAIL", "Tailor_Fail"} -> "tailor_fail"
      [] k = "ERROR:" -> "error:"
      [] OTHER -> k

\* String.prototype.toUpperCase, toLowerCase
ToUpperCase(t) == [i \in 1..Len(t) |-> UpperTok(t[i])]
ToLowerCase(t) == [i \in 1..Len(t) |-> LowerTok(t[i])]

\* String.prototype.startsWith, includes: for a one-chunk pattern
StartsWith(t, k) == t # <<>> /\ t[1] = k
Includes(t, k) == \E i \in 1..Len(t) : t[i] = k

\* row[index] of a row that may be shorter than the header row: undefined -> ""
CellAt(row, i) == IF i \in 1..Len(row) THEN row[i] ELSE <<>>

----------------------------------------------------------------------------
(* MasterResumeData.gs: helpers *)

NL == "\n"
TABULAR_SECTIONS ==
    {"EXPERIENCE", "EDUCATION", "PROJECTS", "TECHNICAL SKILLS & CERTIFICATES",
     "LEADERSHIP & UNIVERSITY INVOLVEMENT", "HONORS & AWARDS"}

\* Date cells: a chunk the Date constructor parses, and the "Month YYYY" it
\* is formatted as; a bare year and a "Mon YYYY" text pass through.
ParsedDates == {"2020-01-15", "3/1/2021"}
MonthYearOf(k) == IF k = "2020-01-15" THEN "January 2020" ELSE "March 2021"
PassThroughDates == {"2019", "2022", "Jan 2020", "June 2023"}

formatDateFromSheet(dateCellValue, isPotentialEndDate) ==
    IF Trim(dateCellValue) = <<>>
    THEN (IF isPotentialEndDate THEN <<"Present">> ELSE <<>>)
    ELSE LET dateString == Trim(dateCellValue) IN
         IF ToUpperCase(dateString) = <<"PRESENT">> THEN <<"Present">>
         ELSE IF Len(dateString) = 1 /\ dateString[1] \in ParsedDates
              THEN <<MonthYearOf(dateString[1])>>
              ELSE dateString

RECURSIVE SplitLines(_, _)
\* the lines of t (split at NL), cur being the line under construction
SplitLines(t, cur) ==
    IF t = <<>> THEN <<cur>>
    ELSE IF Head(t) = NL THEN <<cur>> \o SplitLines(Tail(t), <<>>)
         ELSE SplitLines(Tail(t), Append(cur, Head(t)))

smartSplitMultiLine(textCellContent) ==
    IF Trim(textCellContent) = <<>> THEN <<>>
    ELSE LET linesArray == SplitLines(textCellContent, <<>>)
             trimmed == [i \in 1..Len(linesArray) |-> Trim(linesArray[i])]
         IN SelectSeq(trimmed, LAMBDA l : l # <<>>)

getCanonicalSectionTitle(text) ==
    LET upperText == ToUpperCase(Trim(text)) IN
    IF text = <<>> THEN Null
    ELSE IF StartsWith(upperText, "PERSONAL INFO") THEN "PERSONAL INFO"
    ELSE IF StartsWith(upperText, "SUMMARY") THEN "SUMMARY"
    ELSE IF StartsWith(upperText, "EXPERIENCE") THEN "EXPERIENCE"
    ELSE IF StartsWith(upperText, "EDUCATION") THEN "EDUCATION"
    ELSE IF StartsWith(upperText, "PROJECTS") THEN "PROJECTS"
    ELSE IF StartsWith(upperText, "TECHNICAL SKILLS") \/ Includes(upperText, "CERTIFICATES")
         THEN "TECHNICAL SKILLS & CERTIFICATES"
    ELSE IF StartsWith(upperText, "LEADERSHIP") \/ Includes(upperText, "INVOLVEMENT")
         THEN "LEADERSHIP & UNIVERSITY INVOLVEMENT"
    ELSE IF StartsWith(upperText, "HONORS") \/ StartsWith(upperText, "AWARDS")
         THEN "HONORS & AWARDS"
    ELSE Null

isTabularSection(sectionTitleKey) == sectionTitleKey \in TABULAR_SECTIONS

rowIsEffectivelyBlank(rowArray) ==
    \A i \in 1..Len(rowArray) : Trim(rowArray[i]) = <<>>

\* sheet.getLastRow(): the last row holding a non-empty cell (0: none)
getLastRow(sheet) ==
    LET used == {i \in 1..Len(sheet) : \E j \in 1..Len(sheet[i]) : sheet[i][j] # <<>>}
    IN IF used = {} THEN 0 ELSE CHOOSE i \in used : \A j \in used : j <= i

\* sheet.getDataRange().getValues()
getDataRange(sheet) == SubSeq(sheet, 1, getLastRow(sheet))

----------------------------------------------------------------------------
(* processAccumulatedSection *)

\* keyMappings, and the generic lower-casing of the first letter, for the
\* one-chunk header names of the sheet
JsKeyTok(k) ==
    CASE k = "JobTitle" -> "jobTitle"
      [] k = "Company" -> "company"
      [] k = "Location" -> "location"
      [] k = "StartDate" -> "startDate"
      [] k = "EndDate" -> "endDate"
      [] k = "Institution" -> "institution"
      [] k = "Degree" -> "degree"
      [] k = "RelevantCoursework" -> "relevantCoursework"
      [] k = "CategoryName" -> "categoryName"
      [] k = "SkillItem" -> "skillItem"
      [] k = "Details" -> "details"
      [] k = "Issuer" -> "issuer"
      [] k = "IssueDate" -> "issueDate"
      [] k = "ProjectName" -> "projectName"
      [] k = "Organization" -> "organization"
      [] k = "Role" -> "role"
      [] k = "Technologies" -> "technologies"
      [] k = "Impact" -> "impact"
      [] k = "FutureDevelopment" -> "futureDevelopment"
      [] k = "GitHubName1" -> "githubName1"
      [] k = "GitHubURL1" -> "githubUrl1"
      [] k = "AwardName" -> "awardName"
      [] k = "Date" -> "date"
      [] k = "Description" -> "description"
      [] k = "GPA" -> "gPA"
      [] k = "Responsibility1" -> "responsibility1"
      [] k = "Responsibility2" -> "responsibility2"
      [] k = "Responsibility3" -> "responsibility3"
      [] k = "DescriptionBullet1" -> "descriptionBullet1"
      [] k = "DescriptionBullet2" -> "descriptionBullet2"
      [] k = "DescriptionBullet3" -> "descriptionBullet3"
      [] OTHER -> k

JsKey(headerKeyInSheet, sectionTitleKey) ==
    IF headerKeyInSheet = <<"GPA">> /\ sectionTitleKey = "EDUCATION" THEN "gpa"
    ELSE JsKeyTok(headerKeyInSheet[1])

\* a faulty variant: the numbered columns read from the last to the first
ResponsibilityKeyReversed(k) ==
    <<"responsibility3", "responsibility2", "responsibility1">>[k]

\* `responsibility${k}`, `descriptionBullet${k}`
ResponsibilityKey(k) == <<"responsibility1", "responsibility2", "responsibility3">>[k]
DescriptionBulletKey(k) ==
    <<"descriptionBullet1", "descriptionBullet2", "descriptionBullet3">>[k]

Get(item, key) == IF key \in DOMAIN item THEN item[key] ELSE <<>>
Put(item, key, value) == (key :> value) @@ item
Delete(item, keys) == [k \in (DOMAIN item) \ keys |-> item[k]]
EmptyObject == [k \in {} |-> <<>>]

RECURSIVE ItemFromSheet(_, _, _, _)
\* Step 1: item[header.trim()] = String(row[index]), for every non-empty header
ItemFromSheet(headers, row, index, item) ==
    IF index > Len(headers) THEN item
    ELSE ItemFromSheet(headers, row, index + 1,
            IF Trim(headers[index]) # <<>>
            THEN Put(item, Trim(headers[index]), CellAt(row, index))
            ELSE item)

\* Step 2: for each header of the item (one pass; two headers with one jsKey
\* are told apart by no header of the model), newItem[jsKey] = value.trim()
MappedItem(itemFromSheet, sectionTitleKey) ==
    LET keys == {JsKey(h, sectionTitleKey) : h \in DOMAIN itemFromSheet}
        headerOf(k) == CHOOSE h \in DOMAIN itemFromSheet : JsKey(h, sectionTitleKey) = k
    IN [k \in keys |-> Trim(itemFromSheet[headerOf(k)])]

RECURSIVE CollectBullets(_, _, _)
\* for (k = 1; k <= NUM_DEDICATED_BULLET_COLUMNS; k++) push the non-blank cells
CollectBullets(item, bulletKeys, k) ==
    IF k > NUM_DEDICATED_BULLET_COLUMNS THEN <<>>
    ELSE (IF Trim(Get(item, bulletKeys[k])) # <<>>
          THEN <<Trim(Get(item, bulletKeys[k]))>> ELSE <<>>)
         \o CollectBullets(item, bulletKeys, k + 1)

\* the keys the loop deletes
NumberedKeys(bulletKeys) == {bulletKeys[k] : k \in 1..NUM_DEDICATED_BULLET_COLUMNS}

\* if (item[key] && inSection) item[key] = formatDateFromSheet(item[key], isEndDate)
DateFormatted(item, key, isEndDate, inSection) ==
    IF Get(item, key) # <<>> /\ inSection
    THEN Put(item, key, formatDateFromSheet(item[key], isEndDate))
    ELSE item

\* the numbered bullet columns collected into an array, multi-line cells split
BulletsCollected(item, sectionTitleKey) ==
    LET responsibilityKeys ==
            [k \in 1..NUM_DEDICATED_BULLET_COLUMNS |-> ResponsibilityKey(k)]
        descriptionKeys ==
            [k \in 1..NUM_DEDICATED_BULLET_COLUMNS |-> DescriptionBulletKey(k)]
    IN  IF sectionTitleKey \in {"EXPERIENCE", "LEADERSHIP & UNIVERSITY INVOLVEMENT"}
        THEN Put(Delete(item, NumberedKeys(responsibilityKeys)), "responsibilities",
                 CollectBullets(item, responsibilityKeys, 1))
        ELSE IF sectionTitleKey = "PROJECTS"
        THEN Put(Put(Delete(item, NumberedKeys(descriptionKeys)), "descriptionBullets",
                     CollectBullets(item, descriptionKeys, 1)),
                 "technologies",
                 IF "technologies" \in DOMAIN item
                 THEN smartSplitMultiLine(item["technologies"]) ELSE <<>>)
        ELSE IF sectionTitleKey = "EDUCATION"
        THEN Put(item, "relevantCoursework",
                 IF "relevantCoursework" \in DOMAIN item
                 THEN smartSplitMultiLine(item["relevantCoursework"]) ELSE <<>>)
        ELSE item

\* Step 3: dates, numbered bullets, multi-line cells
ProcessedItem(item0, sectionTitleKey) ==
    BulletsCollected(
        DateFormatted(
            DateFormatted(
                DateFormatted(
                    DateFormatted(item0, "startDate", FALSE, TRUE),
                    "endDate", TRUE, TRUE),
                "date", FALSE, sectionTitleKey = "HONORS & AWARDS"),
            "issueDate", FALSE, sectionTitleKey = "TECHNICAL SKILLS & CERTIFICATES"),
        sectionTitleKey)

ProcessedItems(headers, dataRows, sectionTitleKey) ==
    [i \in 1..Len(dataRows) |->
        ProcessedItem(MappedItem(ItemFromSheet(headers, dataRows[i], 1, EmptyObject),
                                 sectionTitleKey),
                      sectionTitleKey)]

GROUPED_SECTIONS == {"TECHNICAL SKILLS & CERTIFICATES", "PROJECTS"}

\* the empty structure of a section that is not in the output yet
NewSection(sectionTitleKey) ==
    IF sectionTitleKey \in GROUPED_SECTIONS
    THEN [title |-> sectionTitleKey,
          subsections |-> IF sectionTitleKey = "PROJECTS"
                          THEN <<[name |-> <<"General Projects">>, items |-> <<>>]>>
                          ELSE <<>>]
    ELSE [title |-> sectionTitleKey, items |-> <<>>]

\* a faulty variant: no section is ever found
FindNoSection(sections, title) == 0

\* resumeOutput.sections.find(s => s.title === title): its index, 0 if none
FindSection(sections, title) ==
    LET hits == {i \in 1..Len(sections) : sections[i].title = title}
    IN IF hits = {} THEN 0 ELSE CHOOSE i \in hits : \A j \in hits : i <= j

RECURSIVE GroupByCategory(_, _, _)
\* subsectionsMap: category -> {name, items}, in order of first occurrence
GroupByCategory(processedItems, i, subs) ==
    IF i > Len(processedItems) THEN subs
    ELSE LET item == processedItems[i]
             category == IF Get(item, "categoryName") # <<>>
                         THEN item["categoryName"] ELSE <<"Uncategorized">>
             entry == IF Get(item, "issuer") # <<>> \/ Get(item, "issueDate") # <<>>
                      THEN [name |-> Get(item, "skillItem"), issuer |-> Get(item, "issuer"),
                            issueDate |-> Get(item, "issueDate")]
                      ELSE [skill |-> Get(item, "skillItem"), details |-> Get(item, "details")]
             at == {j \in 1..Len(subs) : subs[j].name = category}
         IN GroupByCategory(processedItems, i + 1,
                IF at = {}
                THEN Append(subs, [name |-> category, items |-> <<entry>>])
                ELSE LET j == CHOOSE j \in at : TRUE
                     IN [subs EXCEPT ![j].items = Append(@, entry)])

ProjectStructured(item) ==
    [projectName |-> Get(item, "projectName"), organization |-> Get(item, "organization"),
     role |-> Get(item, "role"), startDate |-> Get(item, "startDate"),
     endDate |-> Get(item, "endDate"), descriptionBullets |-> item["descriptionBullets"],
     technologies |-> item["technologies"], impact |-> Get(item, "impact"),
     futureDevelopment |-> Get(item, "futureDevelopment"),
     githubLinks |-> IF Get(item, "githubName1") # <<>> /\ Get(item, "githubUrl1") # <<>>
                     THEN <<[name |-> item["githubName1"], url |-> item["githubUrl1"]]>>
                     ELSE <<>>,
     subProjectsOrRoles |-> <<>>]

\* Step 4: the processed items pushed into section object sec
SectionWithItems(sec, processedItems) ==
    IF sec.title = "TECHNICAL SKILLS & CERTIFICATES"
    THEN [sec EXCEPT !.subsections = GroupByCategory(processedItems, 1, <<>>)]
    ELSE IF sec.title = "PROJECTS"
    THEN LET structured == [i \in 1..Len(processedItems) |->
                               ProjectStructured(processedItems[i])]
             subs0 == IF sec.subsections = <<>>
                      THEN <<[name |-> <<"General Projects">>, items |-> <<>>]>>
                      ELSE sec.subsections
             at == {j \in 1..Len(subs0) : subs0[j].name = <<"General Projects">>}
             subs1 == IF at = {}
                      THEN Append(subs0, [name |-> <<"General Projects">>, items |-> <<>>])
                      ELSE subs0
             g == CHOOSE j \in 1..Len(subs1) :
                     /\ subs1[j].name = <<"General Projects">>
                     /\ \A l \in 1..(j - 1) : subs1[l].name # <<"General Projects">>
         IN [sec EXCEPT !.subsections = [subs1 EXCEPT ![g].items = @ \o structured]]
    ELSE [sec EXCEPT !.items = @ \o processedItems]

\* the personalInfo key a "Key" cell is stored under
PersonalInfoKey(keyRaw) ==
    LET k == keyRaw[1] IN
    CASE k \in {"Full Name", "Name", "fullname"} -> "fullName"
      [] k = "LinkedIn" -> "linkedin"
      [] k = "GitHub" -> "github"
      [] k = "Portfolio" -> "portfolio"
      [] k = "Phone" -> "phone"
      [] k = "Email" -> "email"
      [] k = "Location" -> "location"
      [] OTHER -> k

RECURSIVE PersonalInfoRows(_, _, _)
PersonalInfoRows(dataRows, i, info) ==
    IF i > Len(dataRows) THEN info
    ELSE LET keyRaw == Trim(CellAt(dataRows[i], 1))
             value == Trim(CellAt(dataRows[i], 2))
         IN PersonalInfoRows(dataRows, i + 1,
                IF keyRaw = <<>> \/ value = <<>> THEN info
                ELSE Put(info, PersonalInfoKey(keyRaw), value))

RECURSIVE JoinLines(_)
JoinLines(lines) ==
    IF lines = <<>> THEN <<>>
    ELSE IF Len(lines) = 1 THEN lines[1]
    ELSE lines[1] \o <<NL>> \o JoinLines(Tail(lines))

processAccumulatedSection(resumeOutput, sectionTitleKey, headers, dataRows) ==
    IF sectionTitleKey = "PERSONAL INFO"
    THEN [resumeOutput EXCEPT !.personalInfo = PersonalInfoRows(dataRows, 1, @)]
    ELSE IF sectionTitleKey = "SUMMARY"
    THEN [resumeOutput EXCEPT !.summary =
            Trim(JoinLines([i \in 1..Len(dataRows) |-> Trim(CellAt(dataRows[i], 1))]))]
    ELSE IF ~isTabularSection(sectionTitleKey) THEN resumeOutput
    ELSE LET at == FindSection(resumeOutput.sections, sectionTitleKey)
             withSection == IF at = 0
                            THEN Append(resumeOutput.sections, NewSection(sectionTitleKey))
                            ELSE resumeOutput.sections
             j == IF at = 0 THEN Len(withSection) ELSE at
         IN IF headers = <<>> \/ dataRows = <<>>
            THEN [resumeOutput EXCEPT !.sections = withSection]
            ELSE [resumeOutput EXCEPT !.sections =
                    [withSection EXCEPT ![j] =
                        SectionWithItems(@, ProcessedItems(headers, dataRows,
                                                           sectionTitleKey))]]

----------------------------------------------------------------------------
(* getMasterResumeData *)

\* chunks of at most five characters (the SUMMARY heuristic asks length > 5)
ShortChunks == {WS, "a", "b", "c", "abc", "(", "n/a"}
LongerThanFive(t) == (\E i \in 1..Len(t) : t[i] \notin ShortChunks) \/ Len(t) > 5

\* the text a SUMMARY row contributes ("" if none)
SummaryTextInRow(row) ==
    LET cellBText == Trim(CellAt(row, 2))
        cellAText == Trim(CellAt(row, 1))
    IN IF cellBText # <<>> /\ ~StartsWith(cellBText, "(") /\ LongerThanFive(cellBText)
       THEN cellBText
       ELSE IF /\ cellAText # <<>> /\ ~StartsWith(cellAText, "(")
               /\ getCanonicalSectionTitle(cellAText) = Null /\ LongerThanFive(cellAText)
            THEN cellAText
            ELSE <<>>

\* a faulty variant: the row after the title is taken for the header row
RowAfterTitle(allData, headerRowIndex) == headerRowIndex

RECURSIVE SkipBlankRows(_, _)
\* while (headerRowIndex < allData.length && rowIsEffectivelyBlank(...)) headerRowIndex++
SkipBlankRows(allData, headerRowIndex) ==
    IF headerRowIndex <= Len(allData) /\ rowIsEffectivelyBlank(allData[headerRowIndex])
    THEN SkipBlankRows(allData, headerRowIndex + 1)
    ELSE headerRowIndex

\* the condition under which an accumulated section is processed
ShouldProcess(st) ==
    /\ st.currentSectionTitleKey # Null
    /\ \/ st.currentSectionRawData # <<>>
       \/ st.currentSectionTitleKey = "SUMMARY" /\ st.resumeOutput.summary # <<>>

Flushed(st) ==
    IF ShouldProcess(st)
    THEN processAccumulatedSection(st.resumeOutput, st.currentSectionTitleKey,
                                   st.currentSectionHeaders, st.currentSectionRawData)
    ELSE st.resumeOutput

\* one turn of the row loop for row i (rows 1-based): the loop's variables
\* after it and the row the loop turns to next.  st holds the loop's
\* variables, st.abandoned counts the sections dropped by the "data rows but
\* no headers" branch
ScanStep(allData, i, st) ==
    LET row == allData[i]
        firstCellRawText == Trim(CellAt(row, 1))
        potentialNewSectionKey == getCanonicalSectionTitle(firstCellRawText)
    IN
    IF potentialNewSectionKey # Null
    THEN LET headerRowIndex == SkipBlankRows(allData, i + 1)
             found == /\ isTabularSection(potentialNewSectionKey)
                      /\ i + 1 <= Len(allData)
                      /\ headerRowIndex <= Len(allData)
                      /\ getCanonicalSectionTitle(Trim(CellAt(allData[headerRowIndex], 1))) = Null
         IN [next |-> (IF found THEN headerRowIndex ELSE i) + 1,
             st |-> [st EXCEPT !.resumeOutput = Flushed(st),
                               !.currentSectionTitleKey = potentialNewSectionKey,
                               !.currentSectionRawData = <<>>,
                               !.currentSectionHeaders =
                                   IF found
                                   THEN [h \in 1..Len(allData[headerRowIndex]) |->
                                            Trim(allData[headerRowIndex][h])]
                                   ELSE <<>>]]
    ELSE IF st.currentSectionTitleKey = Null \/ rowIsEffectivelyBlank(row)
    THEN [next |-> i + 1, st |-> st]
    ELSE IF st.currentSectionTitleKey = "SUMMARY"
    THEN [next |-> i + 1,
          st |-> IF SummaryTextInRow(row) # <<>>
                 THEN [st EXCEPT !.currentSectionRawData =
                                     Append(@, <<SummaryTextInRow(row)>>)]
                 ELSE st]
    ELSE IF /\ isTabularSection(st.currentSectionTitleKey)
            /\ st.currentSectionHeaders = <<>>
            /\ Len(st.currentSectionRawData) > 1
    THEN [next |-> i + 1,
          st |-> [st EXCEPT !.currentSectionTitleKey = Null, !.abandoned = @ + 1]]
    ELSE [next |-> i + 1, st |-> [st EXCEPT !.currentSectionRawData = Append(@, row)]]

RECURSIVE ScanRows(_, _, _)
\* for (let i = 0; i < allData.length; i++): the loop's variables at its end
ScanRows(allData, i, st) ==
    IF i > Len(allData) THEN st
    ELSE LET turned == ScanStep(allData, i, st)
         IN ScanRows(allData, turned.next, turned.st)

\* resumeOutput as declared; isNull tells a record from the null result
EmptyResume ==
    [isNull |-> FALSE, personalInfo |-> EmptyObject, summary |-> <<>>, sections |-> <<>>]
NullResume == [isNull |-> TRUE]

ScanStart ==
    [resumeOutput |-> EmptyResume, currentSectionTitleKey |-> Null,
     currentSectionRawData |-> <<>>, currentSectionHeaders |-> <<>>, abandoned |-> 0]

\* sheet: the rows of the data sheet; fault: the spreadsheet or the sheet could
\* not be opened or read (every exception is caught: null)
getMasterResumeData(sheet, fault) ==
    IF fault THEN NullResume
    ELSE IF getLastRow(sheet) = 0 THEN NullResume
    ELSE Flushed(ScanRows(getDataRange(sheet), 1, ScanStart))

----------------------------------------------------------------------------
(* Main.gs: runStage1_AnalyzeAndScore, the units it scores and the rows *)

\* a || b on strings
OrElse(a, b) == IF a # <<>> THEN a ELSE b

\* `ExperienceItem${jobIndex}` and the like, for the 0-based indices of the model
ExperienceItemNames ==
    <<"ExperienceItem0", "ExperienceItem1", "ExperienceItem2", "ExperienceItem3">>
ProjectItemNames == <<"ProjectItem0", "ProjectItem1", "ProjectItem2", "ProjectItem3">>
LeadershipItemNames ==
    <<"LeadershipItem0", "LeadershipItem1", "LeadershipItem2", "LeadershipItem3">>
IndexedName(names, index) == <<names[index + 1]>>

RECURSIVE Flatten(_)
Flatten(seqs) == IF seqs = <<>> THEN <<>> ELSE Head(seqs) \o Flatten(Tail(seqs))

\* (record.sections.find(s => s.title === title) || {}).items || []
ItemsOf(record, title) ==
    LET at == FindSection(record.sections, title)
    IN IF at = 0 THEN <<>> ELSE record.sections[at].items

SubsectionsOf(record, title) ==
    LET at == FindSection(record.sections, title)
    IN IF at = 0 THEN <<>> ELSE record.sections[at].subsections

\* EXP_J<item>_B<bullet>, PROJ_S<sub>_P<item>_<name>_<type>_B<bullet>,
\* LEAD_I<item>_B<bullet>, TECH_Cat<sub>_<type><item>
UniqueId(prefix, sub, item, name, type, bullet) ==
    [prefix |-> prefix, sub |-> sub, item |-> item, name |-> name, type |-> type,
     bullet |-> bullet]

\* a faulty variant: the identifier names the entry instead of numbering it
UniqueIdTextByName(uniqueId) ==
    <<uniqueId.prefix>> \o uniqueId.name \o <<"_B", ToString(uniqueId.bullet)>>

\* the template literals of the identifiers, as the text written to the
\* UniqueID cell: `EXP_J${jobIndex}_B${bulletIndex}`,
\* `PROJ_S${subIndex}_P${projectIndex}_${name}_${type}_B${bulletIndexInList}`,
\* `LEAD_I${itemIndex}_B${bulletIndex}`, `TECH_Cat${subIndex}_${itemType}${itemIndex}`
UniqueIdText(uniqueId) ==
    CASE uniqueId.prefix = "PROJ_S" ->
            <<"PROJ_S", ToString(uniqueId.sub), "_P", ToString(uniqueId.item), "_">>
                \o uniqueId.name
                \o <<"_", uniqueId.type, "_B", ToString(uniqueId.bullet)>>
      [] uniqueId.prefix = "TECH_Cat" ->
            <<"TECH_Cat", ToString(uniqueId.sub), "_", uniqueId.type,
              ToString(uniqueId.item)>>
      [] OTHER ->
            <<uniqueId.prefix, ToString(uniqueId.item), "_B", ToString(uniqueId.bullet)>>

\* the first four cells of a row of allScoredBulletsDataForSheet
Unit(uniqueId, section, itemIdentifier, text) ==
    [uniqueId |-> uniqueId, section |-> section, itemIdentifier |-> itemIdentifier,
     originalBulletText |-> text]

\* bullets.forEach((originalBullet, bulletIndex) => ...): a blank bullet is
\* skipped, its index is not reused
BulletUnits(bullets, section, itemIdentifier, prefix, sub, item, name, type) ==
    SelectSeq([b \in 1..Len(bullets) |->
                  Unit(UniqueId(prefix, sub, item, name, type, b - 1),
                       section, itemIdentifier, bullets[b])],
              LAMBDA u : Trim(u.originalBulletText) # <<>>)

ExperienceUnits(record) ==
    LET items == ItemsOf(record, "EXPERIENCE")
    IN Flatten([j \in 1..Len(items) |->
            BulletUnits(Get(items[j], "responsibilities"), "EXPERIENCE",
                        OrElse(Get(items[j], "company"),
                               IndexedName(ExperienceItemNames, j - 1)),
                        "EXP_J", 0, j - 1, <<>>, "")])

\* (projectName || "NoName").replace(/\s+/g, "_").substring(0, 10): of a name
\* of several chunks the cut keeps the first
ProjectIdName(projectName) ==
    LET n == OrElse(projectName, <<"NoName">>)
    IN IF n[1] = WS THEN <<"_">> ELSE <<n[1]>>

ProjectUnits(record) ==
    LET subs == SubsectionsOf(record, "PROJECTS")
    IN Flatten([s \in 1..Len(subs) |->
            Flatten([p \in 1..Len(subs[s].items) |->
                LET project == subs[s].items[p]
                IN BulletUnits(project.descriptionBullets, "PROJECTS",
                       OrElse(project.projectName, IndexedName(ProjectItemNames, p - 1)),
                       "PROJ_S", s - 1, p - 1,
                       ProjectIdName(project.projectName), "Desc")])])

LeadershipUnits(record) ==
    LET items == ItemsOf(record, "LEADERSHIP & UNIVERSITY INVOLVEMENT")
    IN Flatten([j \in 1..Len(items) |->
            BulletUnits(Get(items[j], "responsibilities"),
                        "LEADERSHIP & UNIVERSITY INVOLVEMENT",
                        OrElse(Get(items[j], "organization"),
                               OrElse(Get(items[j], "role"),
                                      IndexedName(LeadershipItemNames, j - 1))),
                        "LEAD_I", 0, j - 1, <<>>, "")])

\* originalTextToScore, itemIdentifier and itemType of a skill or certificate
TechText(item) ==
    IF Get(item, "skill") # <<>>
    THEN Trim(item.skill) \o (IF Trim(Get(item, "details")) # <<>>
                              THEN <<WS>> \o Trim(item.details) ELSE <<>>)
    ELSE IF Get(item, "name") # <<>>
    THEN Trim(item.name) \o (IF Trim(Get(item, "issuer")) # <<>>
                             THEN <<" (Issuer: ">> \o Trim(item.issuer) \o <<")">>
                             ELSE <<>>)
    ELSE <<>>

TechIdentifier(item) ==
    IF Get(item, "skill") # <<>> THEN Trim(item.skill)
    ELSE IF Get(item, "name") # <<>> THEN Trim(item.name) ELSE <<>>

TechType(item) ==
    IF Get(item, "skill") # <<>> THEN "Skill"
    ELSE IF Get(item, "name") # <<>> THEN "Cert" ELSE ""

TechUnits(record) ==
    LET subs == SubsectionsOf(record, "TECHNICAL SKILLS & CERTIFICATES")
    IN Flatten([s \in 1..Len(subs) |->
            SelectSeq([p \in 1..Len(subs[s].items) |->
                          Unit(UniqueId("TECH_Cat", s - 1, p - 1, <<>>,
                                        TechType(subs[s].items[p]), 0),
                               "TECHNICAL SKILLS & CERTIFICATES",
                               TechIdentifier(subs[s].items[p]),
                               TechText(subs[s].items[p]))],
                      LAMBDA u : u.originalBulletText # <<>>)])

\* the units in the order the four loops of stage 1 visit them
Stage1Units(record) ==
    ExperienceUnits(record) \o ProjectUnits(record) \o LeadershipUnits(record)
        \o TechUnits(record)

----------------------------------------------------------------------------
(* TailoringLogic.gs: the three LLM tasks.  groqResponse is what callGroq   *)
(* returned: an "ERROR: ..." text, or the completion.                       *)

GroqError == <<"ERROR:", " API Call Failed (Groq) - HTTP 500">>

\* completions of the analysis prompt, parsed: the model has a job title (or
\* "" when the description names none) and the primaryKeywords list
AnalysisResponses ==
    {[kind |-> "error", jobTitle |-> <<>>, primaryKeywords |-> FALSE],
     [kind |-> "analysis", jobTitle |-> <<"Engineer">>, primaryKeywords |-> TRUE],
     [kind |-> "analysis", jobTitle |-> <<>>, primaryKeywords |-> TRUE]}

NoAnalysis == [error |-> <<"none">>, jobTitle |-> <<>>, primaryKeywords |-> FALSE]

analyzeJobDescription(groqResponse) ==
    IF groqResponse.kind = "analysis"
    THEN [error |-> <<>>, jobTitle |-> groqResponse.jobTitle,
          primaryKeywords |-> groqResponse.primaryKeywords]
    ELSE [error |-> <<"Groq API call failed for JD analysis.">>, jobTitle |-> <<>>,
          primaryKeywords |-> FALSE]

\* the validation of the parsed completion, on the object as JSON.parse gives
\* it: its keys, and for each key the type of its value
ValidatedAnalysis(parsedJD) ==
    IF "jobTitle" \in DOMAIN parsedJD /\ "keyResponsibilities" \in DOMAIN parsedJD
          /\ parsedJD["keyResponsibilities"] = "array"
    THEN [error |-> <<>>, keys |-> parsedJD]
    ELSE [error |-> <<"Groq output structure mismatch for JD analysis.">>,
          keys |-> <<>>]

\* completions of the matching prompt, parsed; scores in thousandths
MatchResponses ==
    {[kind |-> "error", relevanceScore |-> 0, matchingKeywords |-> <<>>,
      justification |-> <<>>],
     [kind |-> "match", relevanceScore |-> 4, matchingKeywords |-> <<>>,
      justification |-> <<"weak">>],
     [kind |-> "match", relevanceScore |-> 20, matchingKeywords |-> <<"go", "sql">>,
      justification |-> <<>>]}

MatchError(error, rawOutput) ==
    [error |-> error, rawOutput |-> rawOutput, relevanceScore |-> 0,
     matchingKeywords |-> <<>>, justification |-> <<>>]

\* the preconditions under which matchResumeSection (and tailorBulletPoint)
\* reaches callGroq
ValidForPrompt(text, jdAnalysisResults) ==
    /\ Trim(text) # <<>>
    /\ jdAnalysisResults.primaryKeywords
    /\ jdAnalysisResults.jobTitle # <<>>

matchResumeSection(resumeSectionText, jdAnalysisResults, groqResponse) ==
    IF Trim(resumeSectionText) = <<>>
    THEN MatchError(<<"Input resume section text is empty.">>, <<>>)
    ELSE IF ~jdAnalysisResults.primaryKeywords \/ jdAnalysisResults.jobTitle = <<>>
    THEN MatchError(<<"Invalid JD analysis results (missing primaryKeywords or jobTitle).">>,
                    <<>>)
    ELSE IF groqResponse.kind = "match"
    THEN [error |-> <<>>, rawOutput |-> <<>>,
          relevanceScore |-> groqResponse.relevanceScore,
          matchingKeywords |-> groqResponse.matchingKeywords,
          justification |-> groqResponse.justification]
    ELSE MatchError(<<"Groq API call failed for matching.">>, GroqError)

\* completions of the tailoring prompt, as text
TailorResponses == {GroqError, <<"Rewrote", WS, "it">>, <<NOT_SUITABLE>>}

\* potentialJson: the text without a leading code-fence marker (three
\* backquotes, with or without json after them: the chunks "<fence>json"
\* and "<fence>") and without a trailing one, trimmed after each cut
StripFences(tailoredText) ==
    LET opened == IF StartsWith(tailoredText, "<fence>json") \/ StartsWith(tailoredText, "<fence>")
                  THEN Trim(Tail(tailoredText))
                  ELSE tailoredText
    IN IF opened # <<>> /\ opened[Len(opened)] = "<fence>"
       THEN Trim(SubSeq(opened, 1, Len(opened) - 1))
       ELSE opened

\* JSON.parse of a completion, as far as tailorBulletPoint reads the result:
\* the chunk "{rewritten_bullet:" stands for {"rewritten_bullet": " and "}"
\* for "}, so that the chunks between them are the string value; an object
\* with another key has no rewritten_bullet; any other text does not parse
ParsedBullet(potentialJson) ==
    IF Len(potentialJson) >= 2 /\ potentialJson[Len(potentialJson)] = "}"
          /\ potentialJson[1] \in {"{rewritten_bullet:", "{note:"}
    THEN [thrown |-> FALSE,
          rewritten_bullet |->
              IF potentialJson[1] = "{rewritten_bullet:"
              THEN SubSeq(potentialJson, 2, Len(potentialJson) - 1)
              ELSE <<>>]
    ELSE [thrown |-> TRUE, rewritten_bullet |-> <<>>]

\* the part of tailorBulletPoint after a completion has arrived
TailoredTextOf(tailoredText, parsedResponse) ==
    IF ~parsedResponse.thrown /\ parsedResponse.rewritten_bullet # <<>>
    THEN Trim(parsedResponse.rewritten_bullet)
    ELSE tailoredText

tailorBulletPoint(originalBullet, jdAnalysisResults, targetRoleTitle, groqResponse) ==
    IF Trim(originalBullet) = <<>> THEN <<"ERROR:", " Original bullet empty.">>
    ELSE IF ~jdAnalysisResults.primaryKeywords \/ jdAnalysisResults.jobTitle = <<>>
    THEN <<"ERROR:", " Invalid JD analysis.">>
    ELSE IF Trim(targetRoleTitle) = <<>> THEN <<"ERROR:", " Target role empty.">>
    ELSE IF groqResponse # <<>> /\ ~StartsWith(groqResponse, "ERROR:")
    THEN TailoredTextOf(Trim(groqResponse), ParsedBullet(StripFences(Trim(groqResponse))))
    ELSE <<"ERROR:", " Groq API call failed during tailoring for bullet: ">>
             \o originalBullet

\* completions of the summary prompt, as text
SummaryResponses == {GroqError, <<WS, "Seasoned", WS, "engineer.", WS>>}

generateTailoredSummary(jdAnalysisResults, candidateFullName, groqResponse) ==
    IF jdAnalysisResults.jobTitle = <<>> THEN <<"ERROR:", " Invalid JD analysis.">>
    ELSE IF Trim(candidateFullName) = <<>> THEN <<"ERROR:", " Candidate name empty.">>
    ELSE IF groqResponse # <<>> /\ ~StartsWith(groqResponse, "ERROR:")
    THEN \* the chunk "{professionalSummary:" stands for {"professionalSummary": "
         LET potentialJson == StripFences(Trim(groqResponse))
             parsed == Len(potentialJson) >= 3
                          /\ potentialJson[1] = "{professionalSummary:"
                          /\ potentialJson[Len(potentialJson)] = "}"
         IN IF parsed THEN Trim(SubSeq(potentialJson, 2, Len(potentialJson) - 1))
            ELSE Trim(groqResponse)
    ELSE <<"ERROR:", " Groq API call failed during summary generation.">>

----------------------------------------------------------------------------
(* Main.gs: the rows of the scoring table *)

\* Number.prototype.toFixed(2), thousandths to hundredths (no score of the
\* model lies on a half)
ToFixed2(thousandths) == (thousandths + 5) \div 10

RECURSIVE Join(_, _)
\* Array.prototype.join
Join(texts, separator) ==
    IF texts = <<>> THEN <<>>
    ELSE IF Len(texts) = 1 THEN <<texts[1]>>
    ELSE <<texts[1], separator>> \o Join(Tail(texts), separator)

\* the nine cells stage 1 pushes for a unit.  A number cell holds <<n>>, n in
\* hundredths; a blank cell is <<>>
ScoredRow(unit, matchResult) ==
    LET tech == unit.section = "TECHNICAL SKILLS & CERTIFICATES"
        ok == matchResult.error = <<>>
        noJustification ==
            IF unit.section \in {"EXPERIENCE", "PROJECTS"}
            THEN <<"No justification by AI.">>
            ELSE <<"No justification provided by AI.">>
    IN [uniqueId |-> unit.uniqueId,
        section |-> unit.section,
        itemIdentifier |-> unit.itemIdentifier,
        originalBulletText |-> unit.originalBulletText,
        relevanceScore |-> <<ToFixed2(IF ok THEN matchResult.relevanceScore ELSE 0)>>,
        matchingKeywords |-> IF ok THEN Join(matchResult.matchingKeywords, "; ") ELSE <<>>,
        justification |->
            IF ok THEN OrElse(matchResult.justification, noJustification)
            ELSE <<IF tech THEN "Error during matching: " ELSE "Error: ">>
                     \o matchResult.error \o <<". Raw: ">> \o matchResult.rawOutput,
        selectToTailor |-> <<>>,
        tailoredBulletText |-> <<>>]

\* a faulty variant: a unit whose scoring failed gets no row
PushRowUnlessError(rows, unit, matchResult) ==
    IF matchResult.error # <<>> THEN rows ELSE Append(rows, ScoredRow(unit, matchResult))

\* allScoredBulletsDataForSheet.push([...]) after the scoring of a unit
PushRow(rows, unit, matchResult) == Append(rows, ScoredRow(unit, matchResult))

\* a faulty variant: the sheet is prepared without being cleared
KeepContents(sheet) == sheet

\* a faulty variant: the rows a reviewer has marked are kept
KeepReviewedRows(sheet) ==
    [sheet EXCEPT !.rows = SelectSeq(sheet.rows, LAMBDA row : row.selectToTailor # <<>>)]

\* sheet.clearContents()
clearContents(sheet) == [sheet EXCEPT !.rows = <<>>]

\* ["YES", "TRUE", "1", "X"].includes(String(cell).toUpperCase().trim())
IsSelected(cell) ==
    Trim(ToUpperCase(cell)) \in {<<"YES">>, <<"TRUE">>, <<"1">>, <<"X">>}

\* parseFloat(row.RelevanceScore) >= STAGE3_FINAL_INCLUSION_SCORE_THRESHOLD
\* (a blank cell parses to NaN, which compares false)
MeetsThreshold(row) ==
    /\ row.relevanceScore # <<>>
    /\ row.relevanceScore[1] >= STAGE3_FINAL_INCLUSION_SCORE_THRESHOLD

----------------------------------------------------------------------------
(* Main.gs: runStage2_TailorSelectedBullets, the cell it records *)

TailorSucceeded(tailoredOutput) ==
    /\ tailoredOutput # <<>>
    /\ ~StartsWith(tailoredOutput, "ERROR:")
    /\ ToLowerCase(tailoredOutput) # <<not_suitable>>

\* scoringSheetDataRows[i][tailoredColIndex] = ...
Stage2Cell(tailoredOutput) ==
    IF TailorSucceeded(tailoredOutput) THEN Trim(tailoredOutput)
    ELSE <<"TAILOR_FAIL", "/SKIP: ">> \o tailoredOutput

\* a faulty variant: the loop tailors row i whatever its flag
TailoredEveryRow(rows, i, tailoredOutput) ==
    [rows EXCEPT ![i].tailoredBulletText = Stage2Cell(tailoredOutput)]

\* the body of the loop for row i, given the text tailorBulletPoint returned
TailoredRows(rows, i, tailoredOutput) ==
    IF IsSelected(rows[i].selectToTailor)
    THEN [rows EXCEPT ![i].tailoredBulletText = Stage2Cell(tailoredOutput)]
    ELSE rows

----------------------------------------------------------------------------
(* Main.gs: runStage3_BuildAndGenerateDocument, the assembly *)

\* a faulty variant: every non-blank tailored cell is taken for a rewrite
TailoredTextWhenPresent(scoredBulletEntry) ==
    IF Trim(scoredBulletEntry.tailoredBulletText) # <<>>
    THEN Trim(scoredBulletEntry.tailoredBulletText)
    ELSE scoredBulletEntry.originalBulletText

getBulletTextToUse(scoredBulletEntry) ==
    LET tailoredTextFromSheet == scoredBulletEntry.tailoredBulletText
    IN IF /\ tailoredTextFromSheet # <<>>
          /\ Trim(tailoredTextFromSheet) # <<>>
          /\ ~StartsWith(ToUpperCase(tailoredTextFromSheet), "TAILOR_FAIL")
          /\ ToLowerCase(tailoredTextFromSheet) # <<not_suitable>>
       THEN Trim(tailoredTextFromSheet)
       ELSE scoredBulletEntry.originalBulletText

RECURSIVE InsertByScore(_, _)
InsertByScore(sorted, row) ==
    IF sorted = <<>> THEN <<row>>
    ELSE IF Head(sorted).relevanceScore[1] >= row.relevanceScore[1]
         THEN <<Head(sorted)>> \o InsertByScore(Tail(sorted), row)
         ELSE <<row>> \o sorted

RECURSIVE SortByScoreDesc(_)
\* .sort((a, b) => parseFloat(b.RelevanceScore) - parseFloat(a.RelevanceScore)):
\* descending, rows of equal score keep their order
SortByScoreDesc(rows) ==
    IF rows = <<>> THEN <<>>
    ELSE InsertByScore(SortByScoreDesc(SubSeq(rows, 1, Len(rows) - 1)), rows[Len(rows)])

\* a faulty variant: no cut
NoSlice(rows, n) == rows

\* .slice(0, n)
Slice(rows, n) == SubSeq(rows, 1, IF Len(rows) < n THEN Len(rows) ELSE n)

\* item[key] where the item may lack the key (undefined equals no cell)
Undefined == <<"undefined", "undefined">>
KeyOrUndefined(item, key) == IF key \in DOMAIN item THEN item[key] ELSE Undefined

\* a faulty variant: the flag cell is compared as it stands
SelectedWhenFlagExact(allScoredBulletRows, section, itemIdentifierInMaster) ==
    SortByScoreDesc(SelectSeq(allScoredBulletRows,
        LAMBDA r : /\ r.section = section
                   /\ r.itemIdentifier = itemIdentifierInMaster
                   /\ MeetsThreshold(r)
                   /\ r.selectToTailor \in {<<"YES">>, <<"TRUE">>, <<"1">>, <<"X">>}))

\* the rows of an item that pass both filters, best score first
SelectedScoredBullets(allScoredBulletRows, section, itemIdentifierInMaster) ==
    SortByScoreDesc(SelectSeq(allScoredBulletRows,
        LAMBDA r : /\ r.section = section
                   /\ r.itemIdentifier = itemIdentifierInMaster
                   /\ MeetsThreshold(r)
                   /\ IsSelected(r.selectToTailor)))

IncludedBulletsText(selectedScoredBullets, cap) ==
    LET kept == Slice(selectedScoredBullets, cap)
    IN [k \in 1..Len(kept) |-> getBulletTextToUse(kept[k])]

\* the items of tailoredExperienceSection
TailoredExperienceItems(record, allScoredBulletRows) ==
    LET items == ItemsOf(record, "EXPERIENCE")
    IN Flatten([j \in 1..Len(items) |->
            LET selected == SelectedScoredBullets(allScoredBulletRows, "EXPERIENCE",
                                KeyOrUndefined(items[j], "company"))
            IN IF selected # <<>>
               THEN <<Put(items[j], "responsibilities",
                          IncludedBulletsText(selected, STAGE3_MAX_BULLETS_PER_JOB))>>
               ELSE <<>>])

\* the subsections of tailoredProjectsSection
TailoredProjectSubsections(record, allScoredBulletRows) ==
    LET subs == SubsectionsOf(record, "PROJECTS")
        itemsOf(s) ==
            Flatten([p \in 1..Len(subs[s].items) |->
                LET masterProject == subs[s].items[p]
                    selected == SelectedScoredBullets(allScoredBulletRows, "PROJECTS",
                                    masterProject.projectName)
                IN IF selected # <<>>
                   THEN <<[masterProject EXCEPT !.descriptionBullets =
                              IncludedBulletsText(selected,
                                                  STAGE3_MAX_BULLETS_PER_PROJECT)]>>
                   ELSE <<>>])
    IN Flatten([s \in 1..Len(subs) |->
            IF itemsOf(s) # <<>>
            THEN <<[name |-> OrElse(subs[s].name, <<"General Projects">>),
                    items |-> itemsOf(s)]>>
            ELSE <<>>])

\* masterItem.organization || masterItem.role
LeadershipIdentifier(masterItem) ==
    IF Get(masterItem, "organization") # <<>> THEN masterItem["organization"]
    ELSE KeyOrUndefined(masterItem, "role")

TailoredLeadershipItems(record, allScoredBulletRows) ==
    LET items == ItemsOf(record, "LEADERSHIP & UNIVERSITY INVOLVEMENT")
    IN Flatten([j \in 1..Len(items) |->
            LET selected == SelectedScoredBullets(allScoredBulletRows,
                                "LEADERSHIP & UNIVERSITY INVOLVEMENT",
                                LeadershipIdentifier(items[j]))
            IN IF selected # <<>>
               THEN <<Put(items[j], "responsibilities",
                          IncludedBulletsText(selected, STAGE3_MAX_BULLETS_PER_JOB))>>
               ELSE <<>>])

\* the first master skill or certificate named itemIdentifier: <<sub, item>>,
\* <<0, 0>> if none
FoundTechItem(record, itemIdentifier) ==
    LET subs == SubsectionsOf(record, "TECHNICAL SKILLS & CERTIFICATES")
        hit(s, p) ==
            \/ Get(subs[s].items[p], "skill") # <<>>
                  /\ Trim(subs[s].items[p].skill) = itemIdentifier
            \/ Get(subs[s].items[p], "name") # <<>>
                  /\ Trim(subs[s].items[p].name) = itemIdentifier
        places == UNION {{<<s, p>> : p \in 1..Len(subs[s].items)} : s \in 1..Len(subs)}
        hits == {sp \in places : hit(sp[1], sp[2])}
    IN IF hits = {} THEN <<0, 0>>
       ELSE CHOOSE sp \in hits :
                \A other \in hits :
                    sp[1] < other[1] \/ (sp[1] = other[1] /\ sp[2] <= other[2])

RECURSIVE GroupSelectedTech(_, _, _, _)
\* skillsBySubCategoryMap, filled row by row, as subsections in insertion order
GroupSelectedTech(record, selectedTechItemsFromSheet, i, subs) ==
    IF i > Len(selectedTechItemsFromSheet) THEN subs
    ELSE LET row == selectedTechItemsFromSheet[i]
             found == FoundTechItem(record, row.itemIdentifier)
             masterSubs == SubsectionsOf(record, "TECHNICAL SKILLS & CERTIFICATES")
             categoryName == IF found[1] = 0 THEN <<"Uncategorized">>
                             ELSE masterSubs[found[1]].name
             originalMasterItemStructure ==
                 IF found[1] = 0
                 THEN [skill |-> row.originalBulletText, details |-> <<>>]
                 ELSE masterSubs[found[1]].items[found[2]]
             at == {j \in 1..Len(subs) : subs[j].name = categoryName}
         IN GroupSelectedTech(record, selectedTechItemsFromSheet, i + 1,
                IF at = {}
                THEN Append(subs, [name |-> categoryName,
                                   items |-> <<originalMasterItemStructure>>])
                ELSE LET j == CHOOSE j \in at : TRUE
                     IN [subs EXCEPT ![j].items = Append(@, originalMasterItemStructure)])

TailoredTechSubsections(record, allScoredBulletRows) ==
    GroupSelectedTech(record,
        SelectSeq(allScoredBulletRows,
            LAMBDA row : /\ row.section = "TECHNICAL SKILLS & CERTIFICATES"
                         /\ MeetsThreshold(row)
                         /\ IsSelected(row.selectToTailor)),
        1, <<>>)

\* finalTailoredResumeObject.sections after the dynamic assembly
DynamicSections(record, allScoredBulletRows) ==
    (IF TailoredExperienceItems(record, allScoredBulletRows) # <<>>
     THEN <<[title |-> "EXPERIENCE",
             items |-> TailoredExperienceItems(record, allScoredBulletRows)]>>
     ELSE <<>>)
    \o (IF TailoredProjectSubsections(record, allScoredBulletRows) # <<>>
        THEN <<[title |-> "PROJECTS",
                subsections |-> TailoredProjectSubsections(record, allScoredBulletRows)]>>
        ELSE <<>>)
    \o (IF TailoredLeadershipItems(record, allScoredBulletRows) # <<>>
        THEN <<[title |-> "LEADERSHIP & UNIVERSITY INVOLVEMENT",
                items |-> TailoredLeadershipItems(record, allScoredBulletRows)]>>
        ELSE <<>>)
    \o (IF TailoredTechSubsections(record, allScoredBulletRows) # <<>>
        THEN <<[title |-> "TECHNICAL SKILLS & CERTIFICATES",
                subsections |-> TailoredTechSubsections(record, allScoredBulletRows)]>>
        ELSE <<>>)

desiredFinalSectionOrder ==
    <<"EDUCATION", "EXPERIENCE", "PROJECTS", "TECHNICAL SKILLS & CERTIFICATES",
      "LEADERSHIP & UNIVERSITY INVOLVEMENT", "HONORS & AWARDS">>

isStaticSectionEffectivelyEmpty(staticSectionData) ==
    IF "items" \in DOMAIN staticSectionData
    THEN staticSectionData.items = <<>>
    ELSE \A k \in 1..Len(staticSectionData.subsections) :
            staticSectionData.subsections[k].items = <<>>

\* the master sections the forEach over desiredFinalSectionOrder pushes
StaticSections(record, dynamicSections) ==
    Flatten([k \in 1..Len(desiredFinalSectionOrder) |->
        LET sectionTitle == desiredFinalSectionOrder[k]
            at == FindSection(record.sections, sectionTitle)
        IN IF /\ FindSection(dynamicSections, sectionTitle) = 0
              /\ at # 0
              /\ ~isStaticSectionEffectivelyEmpty(record.sections[at])
           THEN <<record.sections[at]>>
           ELSE <<>>])

\* (the sections left as pushed: dynamic sections, then static ones)
SectionsAsPushed(sections) == sections

\* sections.sort by the index of the title in desiredFinalSectionOrder (every
\* title of the parser is in the list)
SortedSections(sections) ==
    Flatten([k \in 1..Len(desiredFinalSectionOrder) |->
                SelectSeq(sections, LAMBDA sec : sec.title = desiredFinalSectionOrder[k])])

\* a faulty variant: a failed generation leaves the summary empty
SummaryClearedOnFailure(record, tailoredSummary) ==
    IF tailoredSummary # <<>> /\ ~StartsWith(tailoredSummary, "ERROR:")
    THEN Trim(tailoredSummary)
    ELSE <<>>

\* the summary stage 3 stores, given what generateTailoredSummary returned
FinalSummary(record, tailoredSummary) ==
    IF tailoredSummary # <<>> /\ ~StartsWith(tailoredSummary, "ERROR:")
    THEN Trim(tailoredSummary)
    ELSE record.summary

\* finalTailoredResumeObject when stage 3 calls createFormattedResumeDoc
AssembledRecord(record, allScoredBulletRows, tailoredSummary) ==
    LET dynamicSections == DynamicSections(record, allScoredBulletRows)
    IN [personalInfo |-> record.personalInfo,
        summary |-> FinalSummary(record, tailoredSummary),
        sections |-> SortedSections(dynamicSections
                                    \o StaticSections(record, dynamicSections))]

----------------------------------------------------------------------------
(* DocumentService.gs: createFormattedResumeDoc.  A document body is a      *)
(* sequence of paragraphs, a paragraph is a text; Drive is the sequence of  *)
(* the copies made of the template                                          *)

sectionsRenderOrder ==
    <<"EDUCATION", "EXPERIENCE", "PROJECTS", "TECHNICAL SKILLS & CERTIFICATES",
      "LEADERSHIP & UNIVERSITY INVOLVEMENT", "HONORS & AWARDS">>

\* the switch over sectionTitleToRender
placeholderText(sectionTitleToRender) ==
    CASE sectionTitleToRender = "EDUCATION" -> "{EDUCATION_ITEMS}"
      [] sectionTitleToRender = "EXPERIENCE" -> "{EXPERIENCE_JOBS}"
      [] sectionTitleToRender = "PROJECTS" -> "{PROJECT_ITEMS}"
      [] sectionTitleToRender = "TECHNICAL SKILLS & CERTIFICATES" -> "{TECHNICAL_SKILLS_LIST}"
      [] sectionTitleToRender = "LEADERSHIP & UNIVERSITY INVOLVEMENT" -> "{LEADERSHIP_ITEMS}"
      [] sectionTitleToRender = "HONORS & AWARDS" -> "{HONORS_LIST}"

\* the body of the template document: the header placeholders, then a heading
\* and a block placeholder for each section, with a blank line between
TemplateBody ==
    << <<"{FULL_NAME}">>, <<"{CONTACT_LINE_1}">>, <<"{CONTACT_LINKS}">>,
       <<"{SUMMARY_CONTENT}">> >>
    \o Flatten([k \in 1..Len(sectionsRenderOrder) |->
                   << <<WS>>, <<sectionsRenderOrder[k]>>,
                      <<placeholderText(sectionsRenderOrder[k])>> >>])

\* findAndReplaceText_minimal: body.replaceText(placeholder, text)
replaceText(body, placeholder, textToInsert) ==
    [p \in 1..Len(body) |->
        Flatten([c \in 1..Len(body[p]) |->
                    IF body[p][c] = placeholder THEN textToInsert ELSE <<body[p][c]>>])]

\* what the switch hands to populateBlockPlaceholder for a section: the items,
\* the projects of all subsections, the section itself for the skills; none
\* when the record has no such section or the section has nothing in it
ItemsToRender(resumeDataObject, sectionTitleToRender) ==
    LET at == FindSection(resumeDataObject.sections, sectionTitleToRender)
        sectionData == resumeDataObject.sections[at]
        grouped == sectionTitleToRender \in {"PROJECTS", "TECHNICAL SKILLS & CERTIFICATES"}
    IN IF at = 0 THEN <<>>
       ELSE IF ~grouped
       THEN (IF "items" \in DOMAIN sectionData THEN sectionData.items ELSE <<>>)
       ELSE IF "subsections" \notin DOMAIN sectionData THEN <<>>
       ELSE IF \A s \in 1..Len(sectionData.subsections) :
                   sectionData.subsections[s].items = <<>>
       THEN <<>>
       ELSE IF sectionTitleToRender = "PROJECTS"
       THEN Flatten([s \in 1..Len(sectionData.subsections) |->
                        sectionData.subsections[s].items])
       ELSE <<sectionData>>

\* the bullets a render function inserts as list items
RenderedBullets(bullets) ==
    SelectSeq([b \in 1..Len(bullets) |-> Trim(bullets[b])], LAMBDA t : t # <<>>)

\* a line a render function inserts only when its text is not empty
RenderedLine(text) == IF text = <<>> THEN <<>> ELSE <<text>>

\* line 2 of renderExperienceJob: the paragraph is inserted when the title
\* with its default, or the location, is not empty; its text is the title
\* without the default, then the location
RenderedTitleLocation(job) ==
    LET titleText == Trim(OrElse(Get(job, "jobTitle"), <<"Untitled Role">>))
        locationText == Trim(Get(job, "location"))
    IN IF titleText = <<>> /\ locationText = <<>> THEN <<>>
       ELSE <<Trim(Get(job, "jobTitle"))
                \o (IF locationText = <<>> THEN <<>>
                    ELSE IF titleText # <<>> THEN <<", ">> \o locationText
                    ELSE locationText)>>

\* renderEducationItem, renderExperienceJob, renderProjectItem,
\* renderTechnicalSkillsList, renderLeadershipItem, renderHonorItem: the
\* paragraphs inserted for one entry of itemsData, that is its name line,
\* the title line of a job and its bullets (the other lines for role, place
\* and dates are left out)
RenderedItem(sectionTitleToRender, item) ==
    CASE sectionTitleToRender = "EDUCATION" ->
            RenderedLine(Trim(OrElse(Get(item, "institution"), <<"Unnamed Institution">>)))
      [] sectionTitleToRender = "EXPERIENCE" ->
            RenderedLine(Trim(OrElse(Get(item, "company"), <<"Unknown Company">>)))
                \o RenderedTitleLocation(item)
                \o RenderedBullets(Get(item, "responsibilities"))
      [] sectionTitleToRender = "PROJECTS" ->
            RenderedLine(Trim(OrElse(Get(item, "projectName"), <<"Untitled Project">>)))
                \o RenderedBullets(Get(item, "descriptionBullets"))
      [] sectionTitleToRender = "TECHNICAL SKILLS & CERTIFICATES" ->
            Flatten([s \in 1..Len(item.subsections) |->
                IF item.subsections[s].items = <<>> THEN <<>>
                ELSE <<Trim(OrElse(item.subsections[s].name, <<"Uncategorized Skills">>))
                         \o <<": ">>
                         \o Flatten([p \in 1..Len(item.subsections[s].items) |->
                                (IF p > 1 THEN <<", ">> ELSE <<>>)
                                    \o TechIdentifier(item.subsections[s].items[p])])>>])
      [] sectionTitleToRender = "LEADERSHIP & UNIVERSITY INVOLVEMENT" ->
            RenderedLine(Trim(OrElse(Get(item, "organization"),
                                     <<"Unnamed Organization/Activity">>)))
                \o RenderedBullets(Get(item, "responsibilities"))
      [] sectionTitleToRender = "HONORS & AWARDS" ->
            RenderedLine(Trim(OrElse(Get(item, "awardName"), <<"Unnamed Award">>)))

\* if (index > 0) insertParagraph(insertionIndex, ""): the empty paragraph
\* the render functions of the itemised sections put before every entry
\* after the first
SpacingPara(sectionTitleToRender, index) ==
    IF index > 0 /\ sectionTitleToRender \in {"EDUCATION", "EXPERIENCE", "PROJECTS",
                                             "LEADERSHIP & UNIVERSITY INVOLVEMENT"}
    THEN << <<>> >> ELSE <<>>

\* populateBlockPlaceholder: the first paragraph holding the placeholder is
\* cleared and the rendered entries are inserted after it; a body without the
\* placeholder is left as it is
populateBlockPlaceholder(body, placeholder, sectionTitleToRender, itemsData) ==
    LET hits == {p \in 1..Len(body) : \E c \in 1..Len(body[p]) : body[p][c] = placeholder}
        at == CHOOSE p \in hits : \A other \in hits : p <= other
    IN IF hits = {} THEN body
       ELSE SubSeq(body, 1, at - 1) \o << <<>> >>
            \o Flatten([i \in 1..Len(itemsData) |->
                           SpacingPara(sectionTitleToRender, i - 1)
                               \o RenderedItem(sectionTitleToRender, itemsData[i])])
            \o SubSeq(body, at + 1, Len(body))

RECURSIVE PopulatedSections(_, _, _)
\* sectionsRenderOrder.forEach(...) from the k-th title on
PopulatedSections(body, resumeDataObject, k) ==
    IF k > Len(sectionsRenderOrder) THEN body
    ELSE PopulatedSections(
            IF ItemsToRender(resumeDataObject, sectionsRenderOrder[k]) # <<>>
            THEN populateBlockPlaceholder(body, placeholderText(sectionsRenderOrder[k]),
                     sectionsRenderOrder[k],
                     ItemsToRender(resumeDataObject, sectionsRenderOrder[k]))
            ELSE replaceText(body, placeholderText(sectionsRenderOrder[k]), <<>>),
            resumeDataObject, k + 1)

\* step 2: the header placeholders and the summary
PopulatedHeader(body, resumeDataObject) ==
    replaceText(
        replaceText(
            replaceText(
                replaceText(body, "{FULL_NAME}", Get(resumeDataObject.personalInfo, "fullName")),
                "{CONTACT_LINE_1}", Get(resumeDataObject.personalInfo, "email")),
            "{CONTACT_LINKS}", Get(resumeDataObject.personalInfo, "linkedin")),
        "{SUMMARY_CONTENT}", resumeDataObject.summary)

\* step 3: the sections, when the record has any
PopulatedBody(body, resumeDataObject) ==
    IF resumeDataObject.sections = <<>> THEN body
    ELSE PopulatedSections(body, resumeDataObject, 1)

\* isVisuallyEmpty: the paragraph has no children, or its text is white
\* space only
isVisuallyEmpty(paragraph) == \A c \in 1..Len(paragraph) : paragraph[c] = WS

\* a faulty variant: nothing is removed
ParagraphKept(body, i) == body

\* paragraph.removeFromParent() inside the try of cleanupAllEmptyLines: the
\* Document service throws for the last paragraph of the body, the catch
\* logs it and the paragraph stays
removeFromParent(body, i) ==
    IF i = Len(body) THEN body
    ELSE SubSeq(body, 1, i - 1) \o SubSeq(body, i + 1, Len(body))

RECURSIVE CleanupFrom(_, _)
\* the loop of cleanupAllEmptyLines from child i down to the first
CleanupFrom(body, i) ==
    IF i = 0 THEN body
    ELSE CleanupFrom(IF isVisuallyEmpty(body[i]) THEN removeFromParent(body, i) ELSE body,
                     i - 1)

\* cleanupAllEmptyLines: the paragraphs of white space only are removed,
\* from the last child of the body to the first
cleanupAllEmptyLines(body) == CleanupFrom(body, Len(body))

\* the step at which the Drive or Docs service throws: finding the template
\* (or copying it), opening the copy, filling it; trashFails: setTrashed
\* throws in the handler
DocFaults == {"none", "template", "open", "populate"}

\* a faulty variant: the handler leaves the copy where it is
DocWithoutCleanup(resumeDataObject, fault, trashFails, files) ==
    IF "personalInfo" \notin DOMAIN resumeDataObject \/ fault = "template"
    THEN [url |-> FALSE, drive |-> files]
    ELSE [url |-> fault = "none",
          drive |-> Append(files, [trashed |-> FALSE, body |-> TemplateBody])]

\* createFormattedResumeDoc: url is the URL returned (FALSE is null), drive is
\* Drive after the call, files is Drive before it
createFormattedResumeDoc(resumeDataObject, fault, trashFails, files) ==
    IF "personalInfo" \notin DOMAIN resumeDataObject THEN [url |-> FALSE, drive |-> files]
    ELSE IF fault = "template" THEN [url |-> FALSE, drive |-> files]
    ELSE IF fault # "none"
    THEN [url |-> FALSE,
          drive |-> Append(files,
              [trashed |-> ~trashFails,
               body |-> IF fault = "open" THEN TemplateBody
                        ELSE PopulatedHeader(TemplateBody, resumeDataObject)])]
    ELSE [url |-> TRUE,
          drive |-> Append(files,
              [trashed |-> FALSE,
               body |-> cleanupAllEmptyLines(
                            PopulatedBody(PopulatedHeader(TemplateBody, resumeDataObject),
                                          resumeDataObject))])]

----------------------------------------------------------------------------
(* The spreadsheet, and what a stage hands back *)

\* JSON.stringify of an analysis into cell A2, JSON.parse of the cell
BlankCell == [blank |-> TRUE, value |-> NoAnalysis]
JSONstringify(jdAnalysis) == [blank |-> FALSE, value |-> jdAnalysis]
JSONparse(cell) == cell.value

NoSheet == [exists |-> FALSE, rows |-> <<>>]
NoJdSheet == [exists |-> FALSE, a2 |-> BlankCell]

Returned(stage, success, message) ==
    [stage |-> stage, thrown |-> FALSE, success |-> success, message |-> message,
     bulletsTailored |-> 0, docUrl |-> FALSE]
\* an exception that leaves the stage function
Threw(stage, message) ==
    [stage |-> stage, thrown |-> TRUE, success |-> FALSE, message |-> message,
     bulletsTailored |-> 0, docUrl |-> FALSE]
NoResult == Returned("none", FALSE, "")

NoRecord ==
    [built |-> FALSE, personalInfo |-> EmptyObject, summary |-> <<>>, sections |-> <<>>]

\* the local variables of a stage function when it is entered
Locals0 ==
    [master |-> NullResume, jd |-> NoAnalysis, todo |-> <<>>, acc |-> <<>>,
     matchLog |-> <<>>, s2rows |-> <<>>, s2i |-> 0, s2read |-> <<>>, s2ok |-> 0,
     finalRecord |-> NoRecord, llmCalls |-> 0]

\* a faulty variant: stage 3 empties the scoring table when it returns
SettleConsumingTable(position, res, locals, jdS, scoringS) ==
    /\ pc' = position
    /\ result' = res
    /\ master' = locals.master
    /\ jd' = locals.jd
    /\ todo' = locals.todo
    /\ acc' = locals.acc
    /\ matchLog' = locals.matchLog
    /\ s2rows' = locals.s2rows
    /\ s2i' = locals.s2i
    /\ s2read' = locals.s2read
    /\ s2ok' = locals.s2ok
    /\ finalRecord' = locals.finalRecord
    /\ llmCalls' = locals.llmCalls
    /\ jdSheet' = jdS
    /\ scoringSheet' = IF res.stage = "3" THEN clearContents(scoringS) ELSE scoringS
    /\ UNCHANGED <<resumeSheet, edits>>

\* the spreadsheet and the locals a step of a stage function leaves
Settle(position, res, locals, jdS, scoringS) ==
    /\ pc' = position
    /\ result' = res
    /\ master' = locals.master
    /\ jd' = locals.jd
    /\ todo' = locals.todo
    /\ acc' = locals.acc
    /\ matchLog' = locals.matchLog
    /\ s2rows' = locals.s2rows
    /\ s2i' = locals.s2i
    /\ s2read' = locals.s2read
    /\ s2ok' = locals.s2ok
    /\ finalRecord' = locals.finalRecord
    /\ llmCalls' = locals.llmCalls
    /\ jdSheet' = jdS
    /\ scoringSheet' = scoringS
    /\ UNCHANGED <<resumeSheet, edits>>

\* the state a step that makes no document leaves
Become(position, res, locals, jdS, scoringS) ==
    /\ Settle(position, res, locals, jdS, scoringS)
    /\ UNCHANGED <<call, ret, drive>>

----------------------------------------------------------------------------
(* The resume sheets of the pipeline specification *)

PersonalInfoRows2 ==
    << << <<"Personal Info">> >>, << <<"Full Name">>, <<"Jane">> >> >>

\* a sheet nobody filled in; a sheet of notes with no section title
EmptySheet == << << <<>> >> >>
NoTitleSheet == << << <<"hello">>, <<"world">> >> >>

\* two jobs of one bullet each, among blank bullet cells
SheetA ==
    PersonalInfoRows2 \o
    << << <<"Experience">> >>,
       << <<"Company">>, <<"Responsibility1">>, <<"Responsibility2">>,
          <<"Responsibility3">> >>,
       << <<"Acme">>, <<WS>>, <<"Built X">>, <<>> >>,
       << <<"Beta">>, <<"Ran Z">>, <<>>, <<>> >> >>

\* the skills section above the experience section, and no personal info
SheetB ==
    << << <<"Technical Skills">> >>,
       << <<"CategoryName">>, <<"SkillItem">> >>,
       << <<"Languages">>, <<"Go">> >>,
       << <<"Experience">> >>,
       << <<"Company">>, <<"Responsibility1">> >>,
       << <<"Acme">>, <<"Built X">> >> >>

\* a project, a leadership role and a degree
SheetC ==
    PersonalInfoRows2 \o
    << << <<"Projects">> >>,
       << <<"ProjectName">>, <<"DescriptionBullet1">> >>,
       << <<"Compiler">>, <<"Wrote it">> >>,
       << <<"Leadership">> >>,
       << <<"Organization">>, <<"Role">>, <<"Responsibility1">> >>,
       << <<>>, <<"Captain">>, <<"Led team">> >>,
       << <<"Education">> >>,
       << <<"Institution">>, <<"Degree">> >>,
       << <<"MIT">>, <<"BSc">> >> >>

\* a job whose company cell was left blank, above a job with a company
SheetD ==
    << << <<"Experience">> >>,
       << <<"Company">>, <<"JobTitle">>, <<"Responsibility1">> >>,
       << <<>>, <<"Intern">>, <<"Ran Z">> >>,
       << <<"Acme">>, <<"Engineer">>, <<"Built X">> >> >>

\* two jobs, the first without a title, above an award: the last block of
\* the document has an entry
SheetE ==
    << << <<"Experience">> >>,
       << <<"Company">>, <<"JobTitle">>, <<"Responsibility1">> >>,
       << <<"Acme">>, <<>>, <<"Built X">> >>,
       << <<"Beta">>, <<"Engineer">>, <<"Ran Z">> >>,
       << <<"Honors">> >>,
       << <<"AwardName">> >>,
       << <<"Prize">> >> >>

PipelineSheets == {EmptySheet, NoTitleSheet, SheetA, SheetB, SheetC, SheetD}

----------------------------------------------------------------------------
(* The resume sheets and scoring tables of the assembly specification *)

CapBullets == <<"b1", "b2", "b3", "b4", "b5", "b6", "b7", "b8", "b9">>
CapSections == {"Experience", "Projects", "Leadership"}

\* the header row of a section: the name column, then the numbered columns
CapHeaders(sectionTitle) ==
    IF sectionTitle = "Projects"
    THEN << <<"ProjectName">>, <<"DescriptionBullet1">>, <<"DescriptionBullet2">>,
            <<"DescriptionBullet3">> >>
    ELSE << <<IF sectionTitle = "Experience" THEN "Company" ELSE "Organization">>,
            <<"Responsibility1">>, <<"Responsibility2">>, <<"Responsibility3">> >>

\* n bullets of one employer (project, organization), entered as the rows of
\* its successive positions, NUM_DEDICATED_BULLET_COLUMNS bullets to a row
CapSheet(sectionTitle, n) ==
    LET w == NUM_DEDICATED_BULLET_COLUMNS
        cell(b) == IF b <= n THEN <<CapBullets[b]>> ELSE <<>>
    IN PersonalInfoRows2 \o << << <<sectionTitle>> >>, CapHeaders(sectionTitle) >>
       \o [j \in 1..((n + w - 1) \div w) |->
              << <<"Acme">> >> \o [c \in 1..w |-> cell(w * (j - 1) + c)]]

\* scores of the LLM, in thousandths: one that rounds to 0.00, two that pass
CapScores == {4, 300, 700}
ScoreResponse(thousandths) ==
    [kind |-> "match", relevanceScore |-> thousandths, matchingKeywords |-> <<>>,
     justification |-> <<"fit">>]

GoodAnalysis ==
    analyzeJobDescription([kind |-> "analysis", jobTitle |-> <<"Engineer">>,
                           primaryKeywords |-> TRUE])

\* what a reviewer types into a tailored-text cell
ReviewerCells ==
    {<<>>, <<WS>>, <<WS, "My", WS, "words", WS>>, <<"tailor_fail", " see note">>,
     <<NOT_SUITABLE_UPPER>>}

\* a tailored-text cell: what stage 2 records for a bullet, or reviewer text
TailoredCells ==
    {Stage2Cell(tailorBulletPoint(<<"b1">>, GoodAnalysis, <<"Engineer">>, r)) :
        r \in TailorResponses} \cup ReviewerCells

\* the table stage 1 writes for the units given the scores of the LLM, with
\* the flags and tailored cells entered since
ReviewedTable(units, scores, flags, cells) ==
    [i \in 1..Len(units) |->
        [ScoredRow(units[i],
                   matchResumeSection(units[i].originalBulletText, GoodAnalysis,
                                      ScoreResponse(scores[i])))
            EXCEPT !.selectToTailor = flags[i], !.tailoredBulletText = cells[i]]]

----------------------------------------------------------------------------
(* The resume sheets of the parsing specification *)

ParseSections == {"Experience", "Leadership", "Projects"}
ParseBulletCells == {<<>>, <<WS>>, <<"a">>, <<WS, "b", WS>>}

\* column layouts: 0 is the name column, k the k-th numbered bullet column
ParseLayouts == {<<0, 1, 2, 3>>, <<2, 0, 3, 1>>}

ParseHeader(sectionTitle, column) == CapHeaders(sectionTitle)[column + 1]

\* a sheet of one section whose data rows hold the bullet cells given
ParseSheet(sectionTitle, layout, bulletCells) ==
    << << <<sectionTitle>> >>,
       [c \in 1..Len(layout) |-> ParseHeader(sectionTitle, layout[c])] >>
    \o [j \in 1..Len(bulletCells) |->
           [c \in 1..Len(layout) |->
               IF layout[c] = 0 THEN <<"Acme">> ELSE bulletCells[j][layout[c]]]]

----------------------------------------------------------------------------
(* The pipeline: the three stage functions and the reviewer *)

\* no stage has run yet
NoRunYet ==
    /\ pc = "idle"
    /\ master = NullResume
    /\ jd = NoAnalysis
    /\ todo = <<>>
    /\ acc = <<>>
    /\ matchLog = <<>>
    /\ s2rows = <<>>
    /\ s2i = 0
    /\ s2read = <<>>
    /\ s2ok = 0
    /\ result = NoResult
    /\ finalRecord = NoRecord
    /\ llmCalls = 0
    /\ edits = 0

Init ==
    /\ resumeSheet \in PipelineSheets
    /\ jdSheet = NoJdSheet
    /\ scoringSheet = NoSheet
    /\ NoRunYet
    /\ runs = 0
    /\ call = [f |-> "none"]
    /\ ret = <<>>
    /\ drive = <<>>

\* no stage function is running
Idle == pc \in {"idle", "returned"}

\* a stage function is entered
Enter ==
    /\ Idle
    /\ runs < MaxRuns
    /\ runs' = runs + 1

JobDescriptions == {<<WS>>, <<"We", WS, "hire", WS, "engineers">>}

\* where the spreadsheet service fails during the first part of stage 1
Stage1Faults ==
    {"none", "resume", "jd.open", "jd.setValue", "scoring.open", "scoring.setValues"}

\* the first part of stage 1, parsed being what the resume sheet parses to
Stage1Prepare(parsed, jobDescriptionText, validId, fault, groqResponse) ==
    LET masterResumeObject == IF fault = "resume" THEN NullResume ELSE parsed
        jdAnalysis == analyzeJobDescription(groqResponse)
        loaded == [Locals0 EXCEPT !.master = masterResumeObject]
        analysed == [loaded EXCEPT !.jd = jdAnalysis, !.llmCalls = 1]
        jdCleared == [exists |-> TRUE, a2 |-> BlankCell]
        jdWritten == [exists |-> TRUE, a2 |-> JSONstringify(jdAnalysis)]
        prepared == clearContents([scoringSheet EXCEPT !.exists = TRUE])
        failed(message, locals, jdS, scoringS) ==
            Become("returned", Returned("1", FALSE, message), locals, jdS, scoringS)
    IN
    IF Trim(jobDescriptionText) = <<>>
    THEN failed("Job Description text cannot be empty.", Locals0, jdSheet, scoringSheet)
    ELSE IF ~validId
    THEN failed("Master Resume Spreadsheet ID is required and appears to be a placeholder.",
                Locals0, jdSheet, scoringSheet)
    ELSE IF masterResumeObject.isNull
    THEN failed("Could not load master resume data. Check sheet ID, name, and contents.",
                loaded, jdSheet, scoringSheet)
    ELSE IF jdAnalysis.error # <<>>
    THEN failed("Job Description analysis failed.", analysed, jdSheet, scoringSheet)
    ELSE IF fault = "jd.open"
    THEN failed("Error storing JD Analysis", analysed, jdSheet, scoringSheet)
    ELSE IF fault = "jd.setValue"
    THEN failed("Error storing JD Analysis", analysed, jdCleared, scoringSheet)
    ELSE IF fault = "scoring.open"
    THEN failed("Error preparing scoring sheet", analysed, jdWritten, scoringSheet)
    ELSE IF fault = "scoring.setValues"
    THEN failed("Error preparing scoring sheet", analysed, jdWritten, prepared)
    ELSE Become("s1_score", NoResult,
                [analysed EXCEPT !.todo = Stage1Units(masterResumeObject)], jdWritten,
                prepared)

\* runStage1_AnalyzeAndScore up to the scoring loops
Stage1Begin ==
    /\ Enter
    /\ \E parsed \in {getMasterResumeData(resumeSheet, FALSE)} :
        \E jobDescriptionText \in JobDescriptions, validId \in BOOLEAN,
           fault \in Stage1Faults, groqResponse \in AnalysisResponses :
            \* (a choice that the run does not get to read is fixed)
            /\ Trim(jobDescriptionText) = <<>> => validId
            /\ Trim(jobDescriptionText) = <<>> \/ ~validId
                  => fault = "none" /\ groqResponse.kind = "error"
            /\ groqResponse.kind = "error" => fault \in {"none", "resume"}
            /\ Stage1Prepare(parsed, jobDescriptionText, validId, fault, groqResponse)

\* one turn of a scoring loop: the next unit is scored and its row pushed
S1ScoreUnit ==
    /\ pc = "s1_score"
    /\ todo # <<>>
    /\ \E groqResponse \in MatchResponses :
        LET unit == Head(todo)
            calls == ValidForPrompt(unit.originalBulletText, jd)
            matchResult == matchResumeSection(unit.originalBulletText, jd, groqResponse)
        IN /\ ~calls => groqResponse.kind = "error"
           /\ acc' = PushRow(acc, unit, matchResult)
           /\ matchLog' = Append(matchLog, matchResult)
           /\ todo' = Tail(todo)
           /\ llmCalls' = llmCalls + (IF calls THEN 1 ELSE 0)
    /\ UNCHANGED <<call, ret, drive,
                   resumeSheet, jdSheet, scoringSheet, pc, master, jd, s2rows, s2i,
                   s2read, s2ok, result, finalRecord, edits, runs>>

\* the run is stopped while a unit is being scored (no try block encloses the
\* loops): PropertiesService fails in callGroq, or the script's time is up
S1Fatal ==
    /\ pc = "s1_score"
    /\ todo # <<>>
    /\ pc' = "returned"
    /\ result' = Threw("1", "stopped in the scoring loop")
    /\ UNCHANGED <<call, ret, drive,
                   resumeSheet, jdSheet, scoringSheet, master, jd, todo, acc, matchLog,
                   s2rows, s2i, s2read, s2ok, finalRecord, llmCalls, edits, runs>>

\* after the loops: the batch write of the rows, then the return
S1Write ==
    /\ pc = "s1_score"
    /\ todo = <<>>
    /\ \E fault \in BOOLEAN :
        /\ fault => acc # <<>>
        /\ scoringSheet' = IF acc # <<>> /\ ~fault
                           THEN [scoringSheet EXCEPT !.rows = acc]
                           ELSE scoringSheet
        /\ result' = IF fault THEN Threw("1", "setValues failed")
                     ELSE Returned("1", TRUE, "Stage 1 Complete.")
    /\ pc' = "returned"
    /\ UNCHANGED <<call, ret, drive,
                   resumeSheet, jdSheet, master, jd, todo, acc, matchLog, s2rows, s2i,
                   s2read, s2ok, finalRecord, llmCalls, edits, runs>>

\* a faulty variant: the stored analysis is used whatever it holds
StoredAnalysisAccepted(jdAnalysis) == FALSE

\* !jdAnalysis || !jdAnalysis.jobTitle, of the analysis parsed from cell A2
StoredAnalysisInvalid(jdAnalysis) == jdAnalysis.jobTitle = <<>>

\* the loading part of stage 2
Stage2Load(validId, fault) ==
    LET jdAnalysis == JSONparse(jdSheet.a2)
        failed(message) ==
            Become("returned", Returned("2", FALSE, message), Locals0, jdSheet,
                   scoringSheet)
    IN
    IF ~validId THEN failed("Spreadsheet ID required.")
    ELSE IF fault THEN failed("Error accessing Stage 2 data sheets")
    ELSE IF ~jdSheet.exists THEN failed("JD analysis sheet missing.")
    ELSE IF ~scoringSheet.exists THEN failed("Bullet scoring sheet missing.")
    ELSE IF jdSheet.a2.blank THEN failed("JD Analysis JSON string not found.")
    ELSE IF StoredAnalysisInvalid(jdAnalysis) THEN failed("Parsed JD Analysis invalid.")
    ELSE IF scoringSheet.rows = <<>>
    THEN Become("returned", Returned("2", TRUE, "No data in scoring sheet to tailor."),
                [Locals0 EXCEPT !.jd = jdAnalysis], jdSheet, scoringSheet)
    ELSE Become("s2_loop", NoResult,
                [Locals0 EXCEPT !.jd = jdAnalysis, !.s2rows = scoringSheet.rows,
                                !.s2read = scoringSheet.rows, !.s2i = 1],
                jdSheet, scoringSheet)

\* runStage2_TailorSelectedBullets up to the loop
Stage2Begin ==
    /\ Enter
    /\ \E validId \in BOOLEAN, fault \in BOOLEAN :
        /\ ~validId => ~fault
        /\ Stage2Load(validId, fault)

\* one turn of the loop over scoringSheetDataRows
S2Row ==
    /\ pc = "s2_loop"
    /\ s2i <= Len(s2rows)
    /\ \E groqResponse \in TailorResponses :
        LET rowData == s2rows[s2i]
            selected == IsSelected(rowData.selectToTailor)
            calls == selected /\ ValidForPrompt(rowData.originalBulletText, jd)
            tailoredOutput == tailorBulletPoint(rowData.originalBulletText, jd,
                                                jd.jobTitle, groqResponse)
        IN /\ ~calls => groqResponse = GroqError
           /\ s2rows' = TailoredRows(s2rows, s2i, tailoredOutput)
           /\ s2ok' = s2ok + (IF selected /\ TailorSucceeded(tailoredOutput) THEN 1 ELSE 0)
           /\ llmCalls' = llmCalls + (IF calls THEN 1 ELSE 0)
    /\ s2i' = s2i + 1
    /\ UNCHANGED <<call, ret, drive, resumeSheet, jdSheet, scoringSheet, pc, master, jd, todo, acc,
                   matchLog, s2read, result, finalRecord, edits, runs>>

\* a faulty variant: only the tailored-text column is written
TailoredColumnWritten(sheet, dataRows) ==
    [sheet EXCEPT !.rows =
        [i \in 1..Len(dataRows) |->
            [sheet.rows[i] EXCEPT !.tailoredBulletText = dataRows[i].tailoredBulletText]]]

\* targetSheet.getRange(2, 1, dataRows.length, headers.length).setValues(dataRows),
\* on a sheet of as many data rows
setValues(sheet, dataRows) == [sheet EXCEPT !.rows = dataRows]

\* after the loop: the write-back (a failure is logged and swallowed), the return
S2Write ==
    /\ pc = "s2_loop"
    /\ s2i > Len(s2rows)
    /\ \E fault \in BOOLEAN :
        LET modifiedDataForSheet ==
                \E i \in 1..Len(s2read) : IsSelected(s2read[i].selectToTailor)
        IN /\ fault => modifiedDataForSheet
           /\ scoringSheet' = IF modifiedDataForSheet /\ ~fault
                              THEN setValues(scoringSheet, s2rows)
                              ELSE scoringSheet
    /\ result' = [Returned("2", TRUE, "Stage 2 Complete.") EXCEPT !.bulletsTailored = s2ok]
    /\ pc' = "returned"
    /\ UNCHANGED <<call, ret, drive,
                   resumeSheet, jdSheet, master, jd, todo, acc, matchLog, s2rows, s2i,
                   s2read, s2ok, finalRecord, llmCalls, edits, runs>>

\* a choice of faults and answers under which stage 3 reads every choice
Stage3ReadsAll(validId, fault) ==
    /\ validId
    /\ fault = "none"
    /\ jdSheet.exists
    /\ scoringSheet.exists
    /\ ~jdSheet.a2.blank
    /\ JSONparse(jdSheet.a2).jobTitle # <<>>

\* stage 3 whole; docFault and trashFails are the faults of
\* createFormattedResumeDoc
Stage3(parsed, validId, fault, groqResponse, docFault, trashFails) ==
    LET masterResumeObject == IF fault = "resume" THEN NullResume ELSE parsed
        jdAnalysis == JSONparse(jdSheet.a2)
        loaded == [Locals0 EXCEPT !.master = masterResumeObject]
        failed(message) ==
            Become("returned", Returned("3", FALSE, message), loaded, jdSheet,
                   scoringSheet)
        fullName == Get(masterResumeObject.personalInfo, "fullName")
        calls == Trim(fullName) # <<>>
        tailoredSummary == generateTailoredSummary(jdAnalysis, fullName, groqResponse)
    IN
    IF ~validId
    THEN Become("returned", Returned("3", FALSE, "Spreadsheet ID required for Stage 3."),
                Locals0, jdSheet, scoringSheet)
    ELSE IF masterResumeObject.isNull
    THEN failed("Failed to load master resume data for Stage 3.")
    ELSE IF fault = "load" THEN failed("Error loading prerequisite data for Stage 3")
    ELSE IF ~jdSheet.exists THEN failed("JD analysis sheet not found.")
    ELSE IF ~scoringSheet.exists THEN failed("Bullet scoring sheet not found.")
    ELSE IF jdSheet.a2.blank THEN failed("JD Analysis JSON string not found or empty.")
    ELSE IF StoredAnalysisInvalid(jdAnalysis) THEN failed("JD Analysis data invalid.")
    ELSE /\ ~calls => groqResponse = GroqError
         /\ \E assembled \in {AssembledRecord(masterResumeObject, scoringSheet.rows,
                                                tailoredSummary)} :
            \E made \in {createFormattedResumeDoc(assembled, docFault, trashFails, drive)} :
                /\ Settle("returned",
                          IF made.url
                          THEN [Returned("3", TRUE, "Stage 3 Complete")
                                    EXCEPT !.docUrl = TRUE]
                          ELSE Returned("3", FALSE,
                                   "Stage 3 Failed: Document generation did not return a URL."),
                          [loaded EXCEPT !.jd = jdAnalysis,
                                         !.llmCalls = IF calls THEN 1 ELSE 0,
                                         !.finalRecord = [built |-> TRUE] @@ assembled],
                          jdSheet, scoringSheet)
                /\ call' = [f |-> "createFormattedResumeDoc",
                            resumeDataObject |-> assembled,
                            fault |-> docFault, trashFails |-> trashFails]
                /\ ret' = made.url
                /\ drive' = made.drive

\* runStage3_BuildAndGenerateDocument
Stage3Run ==
    /\ Enter
    /\ \E parsed \in {getMasterResumeData(resumeSheet, FALSE)} :
        \E validId \in BOOLEAN, fault \in {"none", "resume", "load"},
           groqResponse \in SummaryResponses, docFault \in DocFaults,
           trashFails \in BOOLEAN :
            \* (a choice that the run does not get to read is fixed)
            /\ ~validId => fault = "none"
            /\ ~Stage3ReadsAll(validId, fault)
                  => groqResponse = GroqError /\ docFault = "none"
            /\ trashFails => docFault \in {"open", "populate"}
            /\ Stage3(parsed, validId, fault, groqResponse, docFault, trashFails)

\* the reviewer marks or unmarks a row of the scoring table between two runs
FlagEdits == {<<"yes">>, <<>>}

EditFlag ==
    /\ Idle
    /\ edits < MaxEdits
    /\ \E i \in 1..Len(scoringSheet.rows), cell \in FlagEdits :
        /\ scoringSheet.rows[i].selectToTailor # cell
        /\ scoringSheet' = [scoringSheet EXCEPT !.rows[i].selectToTailor = cell]
    /\ edits' = edits + 1
    \* (the last run's result and locals are not kept past the run)
    /\ pc' = "idle"
    /\ result' = NoResult
    /\ master' = Locals0.master
    /\ jd' = Locals0.jd
    /\ todo' = Locals0.todo
    /\ acc' = Locals0.acc
    /\ matchLog' = Locals0.matchLog
    /\ s2rows' = Locals0.s2rows
    /\ s2i' = Locals0.s2i
    /\ s2read' = Locals0.s2read
    /\ s2ok' = Locals0.s2ok
    /\ finalRecord' = Locals0.finalRecord
    /\ llmCalls' = Locals0.llmCalls
    /\ UNCHANGED <<call, ret, drive, resumeSheet, jdSheet, runs>>

Next ==
    \/ Stage1Begin
    \/ S1ScoreUnit
    \/ S1Fatal
    \/ S1Write
    \/ Stage2Begin
    \/ S2Row
    \/ S2Write
    \/ Stage3Run
    \/ EditFlag

Spec == Init /\ [][Next]_vars

----------------------------------------------------------------------------
(* The assembly specification: stage 3 over the tables of a reviewed run *)

\* stages 1 and 2 have run (they count as runs) and the reviewer has been
\* through the table
InitAssemble ==
    /\ \E sectionTitle \in CapSections, n \in {2, MaxCapRows} :
        \E scores \in [1..n -> CapScores], flag \in FlagEdits, cell \in TailoredCells :
            /\ n > 2 => cell = <<>> /\ flag = <<"yes">>
            /\ resumeSheet = CapSheet(sectionTitle, n)
            /\ scoringSheet =
                  [exists |-> TRUE,
                   rows |-> ReviewedTable(
                       Stage1Units(getMasterResumeData(CapSheet(sectionTitle, n), FALSE)),
                       scores,
                       [i \in 1..n |-> IF i = 2 THEN flag ELSE <<"yes">>],
                       [i \in 1..n |-> IF i = 1 THEN cell ELSE <<>>])]
    /\ jdSheet = [exists |-> TRUE, a2 |-> JSONstringify(GoodAnalysis)]
    /\ NoRunYet
    /\ runs = MaxRuns - 1
    /\ call = [f |-> "none"]
    /\ ret = <<>>
    /\ drive = <<>>

SpecAssemble == InitAssemble /\ [][Stage3Run]_vars

----------------------------------------------------------------------------
(* The concurrent specification: stage 2 beside another writer of the table *)

\* stage 1 has run and the reviewer has marked rows of the table
InitConcurrent ==
    /\ \E sectionTitle \in CapSections, flags \in [1..2 -> FlagEdits] :
        /\ resumeSheet = CapSheet(sectionTitle, 2)
        /\ scoringSheet =
              [exists |-> TRUE,
               rows |-> ReviewedTable(
                   Stage1Units(getMasterResumeData(CapSheet(sectionTitle, 2), FALSE)),
                   [i \in 1..2 |-> 700], flags, [i \in 1..2 |-> <<>>])]
    /\ jdSheet = [exists |-> TRUE, a2 |-> JSONstringify(GoodAnalysis)]
    /\ NoRunYet
    /\ runs = MaxRuns - 1
    /\ call = [f |-> "none"]
    /\ ret = <<>>
    /\ drive = <<>>

\* the cells another writer may put into a column of the table
ConcurrentColumns == {"selectToTailor", "tailoredBulletText", "relevanceScore"}
ConcurrentCells(column) ==
    CASE column = "selectToTailor" -> FlagEdits
      [] column = "tailoredBulletText" -> {<<"Mine">>}
      [] OTHER -> {<<90>>}

\* while stage 2 is between its read of the table and its write-back, the
\* reviewer (the spreadsheet is open to them; no lock is taken) sets a cell;
\* call records the write
EditDuringStage2 ==
    /\ pc = "s2_loop"
    /\ edits < MaxEdits
    /\ \E i \in 1..Len(scoringSheet.rows), column \in ConcurrentColumns :
        \E cell \in ConcurrentCells(column) :
            /\ scoringSheet.rows[i][column] # cell
            /\ scoringSheet' = [scoringSheet EXCEPT !.rows[i][column] = cell]
            /\ call' = [f |-> "setValue", row |-> i, column |-> column, value |-> cell,
                        before |-> scoringSheet.rows[i][column]]
    /\ edits' = edits + 1
    /\ UNCHANGED <<ret, drive, resumeSheet, jdSheet, pc, master, jd, todo, acc, matchLog,
                   s2rows, s2i, s2read, s2ok, result, finalRecord, llmCalls, runs>>

NextConcurrent ==
    \/ Stage2Begin
    \/ S2Row
    \/ S2Write
    \/ EditDuringStage2

SpecConcurrent == InitConcurrent /\ [][NextConcurrent]_vars

----------------------------------------------------------------------------
(* The parsing specification: getMasterResumeData over one-section sheets *)

InitParse ==
    /\ \E sectionTitle \in ParseSections, layout \in ParseLayouts, n \in 1..MaxParseRows :
        \E bulletCells \in [1..n -> [1..NUM_DEDICATED_BULLET_COLUMNS -> ParseBulletCells]] :
            resumeSheet = ParseSheet(sectionTitle, layout, bulletCells)
    /\ jdSheet = NoJdSheet
    /\ scoringSheet = NoSheet
    /\ NoRunYet
    /\ runs = 0
    /\ call = [f |-> "none"]
    /\ ret = <<>>
    /\ drive = <<>>

\* a call of getMasterResumeData
LoadResume ==
    /\ pc = "idle"
    /\ \E fault \in BOOLEAN : master' = getMasterResumeData(resumeSheet, fault)
    /\ pc' = "loaded"
    /\ UNCHANGED <<call, ret, drive,
                   resumeSheet, jdSheet, scoringSheet, jd, todo, acc, matchLog, s2rows,
                   s2i, s2read, s2ok, result, finalRecord, llmCalls, edits, runs>>

SpecParse == InitParse /\ [][LoadResume]_vars

----------------------------------------------------------------------------
(* The scanning specification: the row loop of getMasterResumeData, turn by *)
(* turn, over sheets of any rows.  ret holds the loop's variables and the   *)
(* row the loop is at                                                       *)

\* the rows a sheet of two columns is made of: section titles (two tabular,
\* one not), a blank row, a row of white space, a row of header names, a
\* data row
ScanRowKinds ==
    {<< <<"Experience">>, <<>> >>, << <<"Projects">>, <<>> >>, << <<"Summary">>, <<>> >>,
     << <<>>, <<>> >>, << <<WS>>, <<>> >>,
     << <<"Company">>, <<"Responsibility1">> >>,
     << <<"Acme">>, <<"Built X">> >>}

\* a section as the template sheet lays it out: the title row, the row of
\* header names, n data rows
SectionBlock(title, n) ==
    << << <<title>>, <<>> >>, << <<"Company">>, <<"Responsibility1">> >> >>
    \o [k \in 1..n |-> << <<"Acme">>, <<"Built X">> >>]

SectionBlocks ==
    {SectionBlock(title, n) : title \in {"Experience", "Projects", "Summary"},
                              n \in 0..MaxBlockRows}

\* the sheets of any rows, and the sheets of up to MaxBlocks sections
InitScan ==
    /\ \/ \E n \in 1..MaxScanRows : resumeSheet \in [1..n -> ScanRowKinds]
       \/ \E n \in 1..MaxBlocks :
              \E blocks \in [1..n -> SectionBlocks] : resumeSheet = Flatten(blocks)
    /\ jdSheet = NoJdSheet
    /\ scoringSheet = NoSheet
    /\ NoRunYet
    /\ runs = 0
    /\ call = [f |-> "none"]
    /\ ret = <<>>
    /\ drive = <<>>

\* getMasterResumeData up to the loop: an empty sheet gives null
ScanBegin ==
    /\ pc = "idle"
    /\ IF getLastRow(resumeSheet) = 0
       THEN /\ master' = NullResume
            /\ pc' = "loaded"
            /\ ret' = ret
       ELSE /\ ret' = [next |-> 1, st |-> ScanStart]
            /\ pc' = "scan"
            /\ master' = master
    /\ UNCHANGED <<call, drive, resumeSheet, jdSheet, scoringSheet, jd, todo, acc, matchLog,
                   s2rows, s2i, s2read, s2ok, result, finalRecord, llmCalls, edits, runs>>

\* one turn of the loop
ScanRow ==
    /\ pc = "scan"
    /\ ret.next <= Len(getDataRange(resumeSheet))
    /\ ret' = ScanStep(getDataRange(resumeSheet), ret.next, ret.st)
    /\ UNCHANGED <<call, drive, pc, master, resumeSheet, jdSheet, scoringSheet, jd, todo, acc,
                   matchLog, s2rows, s2i, s2read, s2ok, result, finalRecord, llmCalls,
                   edits, runs>>

\* after the loop: the last accumulated section is processed, the record returned
ScanEnd ==
    /\ pc = "scan"
    /\ ret.next > Len(getDataRange(resumeSheet))
    /\ master' = Flushed(ret.st)
    /\ pc' = "loaded"
    /\ UNCHANGED <<call, ret, drive, resumeSheet, jdSheet, scoringSheet, jd, todo, acc,
                   matchLog, s2rows, s2i, s2read, s2ok, result, finalRecord, llmCalls,
                   edits, runs>>

NextScan ==
    \/ ScanBegin
    \/ ScanRow
    \/ ScanEnd

SpecScan == InitScan /\ [][NextScan]_vars

----------------------------------------------------------------------------
(* The call specification: functions and steps called on their own *)

\* completions of the tailoring prompt: a plain bullet, the sentinel, the
\* JSON object the prompt allows (with a padded, an empty and no
\* rewritten_bullet), each bare, padded, in a code fence, and in a fence that
\* is not closed; no completion; an error of callGroq
TailorCompletions ==
    LET bodies == {<<"Rewrote", WS, "it">>, <<NOT_SUITABLE>>,
                   <<"{rewritten_bullet:", WS, "Rewrote", WS, "it", WS, "}">>,
                   <<"{rewritten_bullet:", "}">>, <<"{note:", "x", "}">>}
    IN UNION {{body, <<WS>> \o body \o <<WS>>,
               <<"<fence>json", WS>> \o body \o <<WS, "<fence>">>,
               <<"<fence>", WS>> \o body \o <<WS, "<fence>", WS>>,
               <<"<fence>json", WS>> \o body} : body \in bodies}
       \cup {<<>>, GroqError}

\* calls of tailorBulletPoint
TailorCalls ==
    [f : {"tailorBulletPoint"}, originalBullet : {<<>>, <<"Built", WS, "X">>},
     jdAnalysisResults : {NoAnalysis, GoodAnalysis},
     targetRoleTitle : {<<WS>>, <<"Engineer">>}, groqResponse : TailorCompletions]

\* one row of the scoring table, above the inclusion threshold, for each of
\* the four filtered sections and each flag cell.  The cells of the
\* SelectToTailor(Manual) column are as String(cell) gives them: a typed word
\* in any case and padding, a checkbox (true, false), a number
SelectionRows ==
    LET FlagCells ==
            {<<"YES">>, <<"yes">>, <<"Yes", WS>>, <<WS, "x">>, <<"X">>, <<"true">>,
             <<"TRUE">>, <<"1">>, <<>>, <<WS>>, <<"no">>, <<"false">>, <<"0">>, <<"Y">>,
             <<"YES", WS, "X">>}
    IN
    {[uniqueId |-> <<"ID">>, section |-> section, itemIdentifier |-> <<"Acme">>,
      originalBulletText |-> <<"Built", WS, "X">>, relevanceScore |-> <<100>>,
      matchingKeywords |-> <<>>, justification |-> <<>>, selectToTailor |-> cell,
      tailoredBulletText |-> <<>>] :
        section \in {"EXPERIENCE", "PROJECTS", "LEADERSHIP & UNIVERSITY INVOLVEMENT",
                     "TECHNICAL SKILLS & CERTIFICATES"},
        cell \in FlagCells}

\* the loop of stage 2 and the filter of stage 3 over a table of one row:
\* whether stage 2 tailors the row, and whether stage 3 keeps it
Selection(row) ==
    [stage2 |-> TailoredRows(<<row>>, 1, <<"Rewrote", WS, "it">>) # <<row>>,
     stage3 |-> IF row.section = "TECHNICAL SKILLS & CERTIFICATES"
                THEN TailoredTechSubsections(NoRecord, <<row>>) # <<>>
                ELSE SelectedScoredBullets(<<row>>, row.section, row.itemIdentifier) # <<>>]

\* calls of createFormattedResumeDoc with a master record as it was parsed
\* (TestCalls.gs) or with no record
DocumentCalls ==
    {c \in [f : {"createFormattedResumeDoc"},
            resumeDataObject : {getMasterResumeData(sheet, FALSE) :
                                   sheet \in PipelineSheets \cup {SheetE}},
            fault : DocFaults, trashFails : BOOLEAN] :
        c.trashFails => c.fault \in {"open", "populate"}}

\* the summary step of stage 3 for a master record with and without a name
\* and a summary, and the completions of the summary prompt: text, the
\* optional JSON object, white space, nothing, an error
SummaryCalls ==
    [f : {"summary"},
     masterResumeObject :
        {getMasterResumeData(info \o text, FALSE) :
            info \in {<<>>, PersonalInfoRows2},
            text \in {<< << <<"Experience">> >>, << <<"Company">> >>, << <<"Acme">> >> >>,
                      << << <<"Summary">> >>, << <<"Old", WS, "summary.">> >> >>}},
     groqResponse :
        SummaryResponses
        \cup {<<>>, <<WS>>, <<"ERROR:", " Highlights empty.">>,
               <<"<fence>json", WS, "{professionalSummary:", "Seasoned", WS, "}", WS,
                 "<fence>">>,
               <<"{professionalSummary:", WS, "}">>}]

\* what generateTailoredSummary hands back to stage 3 and the summary stage 3
\* stores
SummaryStep(masterResumeObject, tailoredSummary) ==
    [tailoredSummary |-> tailoredSummary,
     summary |-> AssembledRecord(masterResumeObject, <<>>, tailoredSummary).summary]

\* completions of the analysis prompt that parse as a JSON object: the
\* object the prompt asks for, that object without one of its keys or with a
\* value of another type under one key, and an object of two keys
AnalysisCalls ==
    LET listKeys == {"keyResponsibilities", "requiredTechnicalSkills", "requiredSoftSkills",
                     "primaryKeywords", "companyCultureClues"}
        allKeys == listKeys \cup {"jobTitle", "companyName", "location", "experienceLevel",
                                  "educationRequirements"}
        asked == [k \in allKeys |-> IF k \in listKeys THEN "array" ELSE "string"]
    IN [f : {"analyzeJobDescription"},
        parsedJD :
            {asked, [k \in {"jobTitle", "keyResponsibilities"} |-> asked[k]]}
            \cup {[k \in allKeys \ {without} |-> asked[k]] : without \in allKeys}
            \cup {[asked EXCEPT ![k] = type] :
                     k \in allKeys, type \in {"string", "array", "number", "null"}}]

\* the scoring of one unit in stage 1: the units of two master records, and
\* completions of the matching prompt whose relevanceScore is a number
\* inside and outside the range the prompt asks for (thousandths)
ScoreCalls ==
    [f : {"score"},
     unit : UNION {{Stage1Units(getMasterResumeData(sheet, FALSE))[i] :
                       i \in 1..Len(Stage1Units(getMasterResumeData(sheet, FALSE)))} :
                   sheet \in {SheetB, SheetC}},
     groqResponse : MatchResponses
                    \cup {ScoreResponse(thousandths) :
                             thousandths \in {0 - 200, 1000, 1500, 85000}}]

\* the normalisation of one data row of a tabular section: the name cell,
\* then the date cells of the section, each drawn from DateCells
DateCells == {<<>>, <<WS>>, <<"Present">>, <<"present">>, <<"2020-01-15">>, <<"2019">>}

DateHeaders(sectionTitleKey) ==
    CASE sectionTitleKey = "HONORS & AWARDS" -> << <<"AwardName">>, <<"Date">> >>
      [] sectionTitleKey = "TECHNICAL SKILLS & CERTIFICATES" ->
            << <<"SkillItem">>, <<"Issuer">>, <<"IssueDate">> >>
      [] sectionTitleKey = "PROJECTS" ->
            << <<"ProjectName">>, <<"StartDate">>, <<"EndDate">> >>
      [] sectionTitleKey = "EDUCATION" ->
            << <<"Institution">>, <<"StartDate">>, <<"EndDate">> >>
      [] OTHER -> << <<"Company">>, <<"StartDate">>, <<"EndDate">> >>

NormalizeCalls ==
    {[f |-> "processAccumulatedSection", sectionTitleKey |-> sectionTitleKey,
      headers |-> DateHeaders(sectionTitleKey), dataRows |-> << <<<<"Acme">>>> \o cells >>] :
        sectionTitleKey \in TABULAR_SECTIONS, cells \in [1..2 -> DateCells]}

\* the skills step of stage 3: a sheet of two skills or certificates, the
\* table stage 1 wrote from it with a score and a flag for each row, and the
\* sheet as stage 3 finds it (the same, or one whose skills were replaced)
TechSheet(rows) ==
    << << <<"Technical Skills">> >>,
       << <<"CategoryName">>, <<"SkillItem">>, <<"Details">>, <<"Issuer">> >> >> \o rows

TechSheetRows ==
    {<< category, skill, details, issuer >> :
        category \in {<<"Languages">>, <<"Tools">>}, skill \in {<<"Go">>, <<"Rust">>},
        details \in {<<>>, <<"expert">>}, issuer \in {<<>>, <<"ACM">>}}

TechCalls ==
    {[f |-> "skills",
      masterAtStage1 |-> getMasterResumeData(TechSheet(rows), FALSE),
      masterResumeObject |->
          getMasterResumeData(
              TechSheet(IF replaced
                        THEN << << <<"Languages">>, <<"Zig">>, <<>>, <<>> >> >>
                        ELSE rows),
              FALSE),
      allScoredBulletRows |->
          ReviewedTable(Stage1Units(getMasterResumeData(TechSheet(rows), FALSE)),
                        scores, flags, [i \in 1..2 |-> <<>>])] :
        rows \in [1..2 -> TechSheetRows], replaced \in BOOLEAN,
        scores \in {<<700, 700>>, <<700, 4>>, <<4, 700>>},
        flags \in {<< <<"yes">>, <<"yes">> >>, << <<"yes">>, <<>> >>, << <<>>, <<"X">> >>}}

\* the scoring loops of stage 1 over a master record: two entries of a
\* bulleted section whose names are equal, different or empty and whose two
\* bullet cells are filled or blank; two skills; the sheets of the pipeline
NamedSheet(sectionTitle, names, bullets) ==
    << << <<sectionTitle>> >>,
       << CapHeaders(sectionTitle)[1], CapHeaders(sectionTitle)[2],
          CapHeaders(sectionTitle)[3] >> >>
    \o [j \in 1..2 |-> << names[j], bullets[j][1], bullets[j][2] >>]

NamedSheets ==
    {NamedSheet(sectionTitle, names, bullets) :
        sectionTitle \in CapSections,
        names \in [1..2 -> {<<>>, <<"Acme">>, <<"Beta">>}],
        bullets \in [1..2 -> [1..2 -> {<<>>, <<WS>>, <<"Built X">>}]]}

UnitCalls ==
    [f : {"stage1Rows"},
     masterResumeObject :
        {record \in {getMasterResumeData(sheet, FALSE) :
                        sheet \in NamedSheets \cup PipelineSheets \cup {SheetE}
                                  \cup {TechSheet(rows) : rows \in [1..2 -> TechSheetRows]}} :
            "sections" \in DOMAIN record}]

\* allScoredBulletsDataForSheet after the four loops, every unit scored
Stage1Rows(masterResumeObject) ==
    LET units == Stage1Units(masterResumeObject)
    IN [u \in 1..Len(units) |->
           PushRow(<<>>, units[u],
                   matchResumeSection(units[u].originalBulletText, GoodAnalysis,
                                      ScoreResponse(700)))[1]]

InitCalls ==
    /\ call \in TailorCalls \cup [f : {"selection"}, row : SelectionRows] \cup DocumentCalls
                \cup SummaryCalls \cup AnalysisCalls \cup ScoreCalls \cup NormalizeCalls
                \cup TechCalls \cup UnitCalls
    /\ ret = <<>>
    /\ drive = <<>>
    /\ resumeSheet = EmptySheet
    /\ jdSheet = NoJdSheet
    /\ scoringSheet = NoSheet
    /\ NoRunYet
    /\ runs = 0

\* the function is called and returns
CallFunction ==
    /\ pc = "idle"
    /\ call.f # "none"
    /\ ret' = CASE call.f = "tailorBulletPoint" ->
                      tailorBulletPoint(call.originalBullet, call.jdAnalysisResults,
                                        call.targetRoleTitle, call.groqResponse)
                 [] call.f = "selection" -> Selection(call.row)
                 [] call.f = "analyzeJobDescription" -> ValidatedAnalysis(call.parsedJD)
                 [] call.f = "score" ->
                      PushRow(<<>>, call.unit,
                              matchResumeSection(call.unit.originalBulletText,
                                                 GoodAnalysis, call.groqResponse))[1]
                 [] call.f = "summary" ->
                      SummaryStep(call.masterResumeObject,
                          generateTailoredSummary(GoodAnalysis,
                              Get(call.masterResumeObject.personalInfo, "fullName"),
                              call.groqResponse))
                 [] call.f = "skills" ->
                      SubsectionsOf(AssembledRecord(call.masterResumeObject,
                                                    call.allScoredBulletRows, <<>>),
                                    "TECHNICAL SKILLS & CERTIFICATES")
                 [] call.f = "stage1Rows" -> Stage1Rows(call.masterResumeObject)
                 [] call.f = "processAccumulatedSection" ->
                      processAccumulatedSection(EmptyResume, call.sectionTitleKey,
                                                call.headers, call.dataRows)
                 [] call.f = "createFormattedResumeDoc" ->
                      createFormattedResumeDoc(call.resumeDataObject, call.fault,
                                               call.trashFails, drive).url
    /\ drive' = IF call.f = "createFormattedResumeDoc"
                THEN createFormattedResumeDoc(call.resumeDataObject, call.fault,
                                              call.trashFails, drive).drive
                ELSE drive
    /\ pc' = "returned"
    /\ UNCHANGED <<call, resumeSheet, jdSheet, scoringSheet, master, jd, todo, acc,
                   matchLog, s2rows, s2i, s2read, s2ok, result, finalRecord, llmCalls,
                   edits, runs>>

SpecCalls == InitCalls /\ [][CallFunction]_vars

----------------------------------------------------------------------------
(* Properties: vocabulary *)

BulletSections == {"EXPERIENCE", "PROJECTS", "LEADERSHIP & UNIVERSITY INVOLVEMENT"}

\* the items of a section, flat or grouped
SectionItems(sec) ==
    IF "items" \in DOMAIN sec THEN sec.items
    ELSE Flatten([g \in 1..Len(sec.subsections) |-> sec.subsections[g].items])

\* the items of section title in a record ("none" if it has no such section)
ItemsIn(sections, title) ==
    IF FindSection(sections, title) = 0 THEN <<>>
    ELSE SectionItems(sections[FindSection(sections, title)])

ItemBullets(title, item) ==
    Get(item, IF title = "PROJECTS" THEN "descriptionBullets" ELSE "responsibilities")

\* the natural key under which the rows of an item are looked up
ItemKey(title, item) ==
    IF title = "EXPERIENCE" THEN KeyOrUndefined(item, "company")
    ELSE IF title = "PROJECTS" THEN KeyOrUndefined(item, "projectName")
    ELSE LeadershipIdentifier(item)

\* score >= threshold and flag truthy
RowPasses(row) ==
    /\ row.relevanceScore # <<>>
    /\ row.relevanceScore[1] >= STAGE3_FINAL_INCLUSION_SCORE_THRESHOLD
    /\ IsSelected(row.selectToTailor)

\* the indices of the passing rows of an item
PassingRows(title, key) ==
    {q \in 1..Len(scoringSheet.rows) :
        /\ scoringSheet.rows[q].section = title
        /\ scoringSheet.rows[q].itemIdentifier = key
        /\ RowPasses(scoringSheet.rows[q])}

\* the texts of a row: the original and the trimmed tailored one
RowTexts(row) == {row.originalBulletText, Trim(row.tailoredBulletText)}

\* the items of the final record, as <<title, item>>
FinalItems ==
    UNION {{<<title, ItemsIn(finalRecord.sections, title)[j]>> :
               j \in 1..Len(ItemsIn(finalRecord.sections, title))} :
           title \in BulletSections}

CapOf(title) ==
    IF title = "PROJECTS" THEN STAGE3_MAX_BULLETS_PER_PROJECT
    ELSE STAGE3_MAX_BULLETS_PER_JOB

Stage1Returned == pc = "returned" /\ result.stage = "1"
Stage2Returned == pc = "returned" /\ result.stage = "2"

----------------------------------------------------------------------------
(* Properties of stage 3 *)

\* C1: after stage 3, every bullet of every EXPERIENCE, PROJECTS and
\* LEADERSHIP item of the final record is the text of a row of the scoring
\* table, of that section and item, that passes (score >= threshold, flag
\* truthy); also when no row of a section passes and when the table is empty.
C1_OnlyPassingBullets ==
    finalRecord.built =>
        \A ti \in FinalItems :
            \A b \in 1..Len(ItemBullets(ti[1], ti[2])) :
                \E q \in PassingRows(ti[1], ItemKey(ti[1], ti[2])) :
                    ItemBullets(ti[1], ti[2])[b] \in RowTexts(scoringSheet.rows[q])

\* C2: a master EXPERIENCE, PROJECTS or LEADERSHIP item with no passing row
\* never appears in the final record: every item that appears has one.
C2_NoItemWithoutPassingRow ==
    finalRecord.built =>
        \A ti \in FinalItems : PassingRows(ti[1], ItemKey(ti[1], ti[2])) # {}

\* C3: no EXPERIENCE or LEADERSHIP item of the final record has more than
\* STAGE3_MAX_BULLETS_PER_JOB bullets and no PROJECTS item more than
\* STAGE3_MAX_BULLETS_PER_PROJECT; when more rows of an item pass than the
\* cap, the bullets are as many as the cap, they are texts of distinct passing
\* rows in descending score order, and no passing row left out scores higher
\* than a row kept.
C3_CapKeepsHighest ==
    finalRecord.built =>
        \A ti \in FinalItems :
            LET bullets == ItemBullets(ti[1], ti[2])
                passing == PassingRows(ti[1], ItemKey(ti[1], ti[2]))
                score(q) == scoringSheet.rows[q].relevanceScore[1]
                emitted(q) == \E b \in 1..Len(bullets) :
                                  bullets[b] \in RowTexts(scoringSheet.rows[q])
            IN /\ Len(bullets) <= CapOf(ti[1])
               /\ Cardinality(passing) > CapOf(ti[1]) =>
                    /\ Len(bullets) = CapOf(ti[1])
                    /\ \A b \in 1..Len(bullets) :
                          \E q \in passing : bullets[b] \in RowTexts(scoringSheet.rows[q])
                    /\ \A b1, b2 \in 1..Len(bullets) : b1 # b2 => bullets[b1] # bullets[b2]
                    /\ \A b \in 1..(Len(bullets) - 1) :
                          \E q1, q2 \in passing :
                              /\ bullets[b] \in RowTexts(scoringSheet.rows[q1])
                              /\ bullets[b + 1] \in RowTexts(scoringSheet.rows[q2])
                              /\ score(q1) >= score(q2)
                    /\ \A out, in \in passing :
                          ~emitted(out) /\ emitted(in) => score(out) <= score(in)

\* more rows pass than the cap, the last row of the table scores highest and
\* comes out first, a row is left out
C3_Witness ==
    /\ finalRecord.built
    /\ \E ti \in FinalItems :
        /\ Cardinality(PassingRows(ti[1], ItemKey(ti[1], ti[2]))) > CapOf(ti[1])
        /\ Len(ItemBullets(ti[1], ti[2])) = CapOf(ti[1])
        /\ ItemBullets(ti[1], ti[2])[1] = <<CapBullets[MaxCapRows]>>

\* the three cases in which the original text is emitted
CellIsBlank(cell) == Trim(cell) = <<>>
CellIsSentinel(cell) == ToLowerCase(cell) = <<not_suitable>>
CellIsErrorMarker(cell) == StartsWith(ToUpperCase(cell), "TAILOR_FAIL")

TextToEmit(row) ==
    IF \/ CellIsBlank(row.tailoredBulletText)
       \/ CellIsSentinel(row.tailoredBulletText)
       \/ CellIsErrorMarker(row.tailoredBulletText)
    THEN row.originalBulletText
    ELSE Trim(row.tailoredBulletText)

\* C4: for every row stage 3 includes, the bullet emitted is the row's
\* original text when the tailored cell is blank, is the not-suitable sentinel
\* or is an error marker (the TAILOR_FAIL/SKIP text of stage 2), and is the
\* trimmed tailored text in every other case.
C4_TextOfIncludedRow ==
    finalRecord.built =>
        \A ti \in FinalItems :
            LET bullets == ItemBullets(ti[1], ti[2])
                passing == PassingRows(ti[1], ItemKey(ti[1], ti[2]))
            IN passing # {} =>
                /\ \A b \in 1..Len(bullets) :
                      \E q \in passing : bullets[b] = TextToEmit(scoringSheet.rows[q])
                /\ Cardinality(passing) <= CapOf(ti[1]) =>
                      \A q \in passing :
                          \E b \in 1..Len(bullets) :
                              bullets[b] = TextToEmit(scoringSheet.rows[q])

\* a passing row whose cell holds what stage 2 records for a failed tailoring
\* comes out with its original text
C4_Witness ==
    /\ finalRecord.built
    /\ RowPasses(scoringSheet.rows[1])
    /\ scoringSheet.rows[1].tailoredBulletText # <<>>
    /\ scoringSheet.rows[1].tailoredBulletText[1] = "TAILOR_FAIL"
    /\ \E ti \in FinalItems :
          \E b \in 1..Len(ItemBullets(ti[1], ti[2])) :
              ItemBullets(ti[1], ti[2])[b] = scoringSheet.rows[1].originalBulletText

\* the order in which the sections of a resume are emitted
FixedOrder ==
    <<"EDUCATION", "EXPERIENCE", "PROJECTS", "TECHNICAL SKILLS & CERTIFICATES",
      "LEADERSHIP & UNIVERSITY INVOLVEMENT", "HONORS & AWARDS">>

PlaceInFixedOrder(title) ==
    IF \E k \in 1..Len(FixedOrder) : FixedOrder[k] = title
    THEN CHOOSE k \in 1..Len(FixedOrder) : FixedOrder[k] = title
    ELSE 0

\* stage 3 assembled content for the title: an item of the master section has
\* a passing row (a skill or certificate: a row of the section passes)
AssembledContentFor(title) ==
    IF title \in BulletSections
    THEN \E j \in 1..Len(ItemsIn(master.sections, title)) :
            PassingRows(title, ItemKey(title, ItemsIn(master.sections, title)[j])) # {}
    ELSE /\ title = "TECHNICAL SKILLS & CERTIFICATES"
         /\ \E q \in 1..Len(scoringSheet.rows) :
               /\ scoringSheet.rows[q].section = title
               /\ RowPasses(scoringSheet.rows[q])

FinalTitles == {finalRecord.sections[k].title : k \in 1..Len(finalRecord.sections)}

----------------------------------------------------------------------------
(* Properties of stage 2 *)

SameButTailoredText(before, after) ==
    [before EXCEPT !.tailoredBulletText = <<>>] = [after EXCEPT !.tailoredBulletText = <<>>]

\* C5: stage 2 changes only the tailored-text cell of the rows whose flag is
\* truthy: the table is untouched while the loop runs, and after the return a
\* row that was not selected is what it was in all nine columns, a selected
\* row is what it was in the other eight, and the rows are as many, in the
\* same order.
C5_Stage2Frame ==
    /\ pc = "s2_loop" => scoringSheet.rows = s2read
    /\ Stage2Returned /\ s2read # <<>> =>
        /\ Len(scoringSheet.rows) = Len(s2read)
        /\ \A i \in 1..Len(s2read) :
              IF IsSelected(s2read[i].selectToTailor)
              THEN SameButTailoredText(s2read[i], scoringSheet.rows[i])
              ELSE scoringSheet.rows[i] = s2read[i]

\* stage 2 has rewritten the cell of a selected row beside a row not selected
C5_Witness ==
    /\ Stage2Returned
    /\ \E i, j \in 1..Len(s2read) :
        /\ IsSelected(s2read[i].selectToTailor)
        /\ scoringSheet.rows[i].tailoredBulletText # s2read[i].tailoredBulletText
        /\ ~IsSelected(s2read[j].selectToTailor)

----------------------------------------------------------------------------
(* Properties of stage 1 *)

\* a stage-1 run was stopped by an exception after it had scored a unit
Stage1StoppedAfterScoring == Stage1Returned /\ result.thrown /\ acc # <<>>

\* C6, as stated: a stage-1 run stopped by a fatal error after k >= 1 units
\* were scored and before the loop ended leaves the k rows in the table.
C6_PartialRowsWritten ==
    Stage1StoppedAfterScoring /\ todo # <<>> => scoringSheet.rows = acc

\* C6, as the code has it: a stage-1 run stopped by a fatal error after it
\* scored k >= 1 units leaves the scoring table without a data row (the table
\* was cleared before the loop and the rows are written after it).
C6_NothingWritten ==
    Stage1StoppedAfterScoring => scoringSheet.rows = <<>>

\* a run is stopped inside the loop with a row in memory and a unit to go
C6_Witness ==
    /\ Stage1StoppedAfterScoring
    /\ todo # <<>>
    /\ scoringSheet.exists
    /\ scoringSheet.rows = <<>>

\* C7: each stage ends by returning a record with a boolean success and a
\* message, whatever the input and whatever fault of the spreadsheet, the LLM
\* or the document backend: no exception leaves a stage.
C7_NoExceptionEscapes ==
    pc = "returned" => ~result.thrown /\ result.stage \in {"1", "2", "3"}

\* the score loops of stage 1 in their order
SectionRank(title) ==
    CASE title = "EXPERIENCE" -> 1
      [] title = "PROJECTS" -> 2
      [] title = "LEADERSHIP & UNIVERSITY INVOLVEMENT" -> 3
      [] OTHER -> 4

\* the non-blank bullets of a section of the master record, in master order
MasterBulletTexts(record, title) ==
    LET items == ItemsIn(record.sections, title)
    IN Flatten([j \in 1..Len(items) |->
                   SelectSeq(ItemBullets(title, items[j]), LAMBDA t : Trim(t) # <<>>)])

\* the named skills and certificates of the master record
MasterNamedSkills(record) ==
    SelectSeq(ItemsIn(record.sections, "TECHNICAL SKILLS & CERTIFICATES"),
              LAMBDA item : Get(item, "skill") # <<>> \/ Get(item, "name") # <<>>)

RowsOfSection(rows, title) == SelectSeq(rows, LAMBDA row : row.section = title)

\* text holds part as a contiguous piece
Carries(text, part) ==
    \E k \in 0..(Len(text) - Len(part)) : SubSeq(text, k + 1, k + Len(part)) = part

\* one row for every unit of the master record, a failed scoring as a row of
\* score 0.00 whose justification carries the error
OneRowPerUnit(rows) ==
    /\ \A title \in BulletSections :
          [i \in 1..Len(RowsOfSection(rows, title)) |->
              RowsOfSection(rows, title)[i].originalBulletText]
            = MasterBulletTexts(master, title)
    /\ Len(RowsOfSection(rows, "TECHNICAL SKILLS & CERTIFICATES"))
          = Len(MasterNamedSkills(master))
    /\ Len(matchLog) = Len(rows)
    /\ \A i \in 1..Len(rows) :
          matchLog[i].error # <<>> =>
              /\ rows[i].relevanceScore = <<0>>
              /\ Carries(rows[i].justification, matchLog[i].error)

HasSectionTitle(sheet) ==
    \E r \in 1..Len(sheet) : getCanonicalSectionTitle(Trim(CellAt(sheet[r], 1))) # Null

\* C9: on an empty resume sheet, and on a sheet with rows of which none
\* bears a section title, getMasterResumeData returns null and stage 1
\* returns success=false without an LLM call and without touching the
\* JD-analysis or the scoring table.
C9_NoTitleIsAFailure ==
    ~HasSectionTitle(resumeSheet) =>
        /\ master.isNull
        /\ llmCalls = 0
        /\ ~result.success
        /\ jdSheet = NoJdSheet
        /\ scoringSheet = NoSheet

\* stage 1 has returned from a run that got past the preparation of the
\* scoring sheet: with success, or stopped by an exception
Stage1RanPastPreparation ==
    Stage1Returned /\ (result.success \/ result.thrown)

\* C12 (as stated): a stage 1 run only adds rows; a row that the reviewer
\* marked before the run (the one edit of the model sets a flag, and it is
\* made between runs) is still in the table, marked, after the run.
C12_ReviewedRowsKept ==
    Stage1Returned /\ edits = 1 =>
        \E q \in 1..Len(scoringSheet.rows) :
            IsSelected(scoringSheet.rows[q].selectToTailor)

\* C12 (amended): a stage 1 run that gets past the preparation of the scoring
\* sheet replaces the table: after it no row carries a selection flag or a
\* tailored text, whatever the table held before the run.
C12_TableReplaced ==
    Stage1RanPastPreparation =>
        \A q \in 1..Len(scoringSheet.rows) :
            /\ scoringSheet.rows[q].selectToTailor = <<>>
            /\ scoringSheet.rows[q].tailoredBulletText = <<>>

\* a second stage 1 run has rewritten a table in which the reviewer had
\* marked a row
C12_Witness ==
    /\ Stage1RanPastPreparation
    /\ edits = 1
    /\ scoringSheet.rows # <<>>

----------------------------------------------------------------------------
(* Properties of the parser *)

NumberedFields ==
    {"responsibility1", "responsibility2", "responsibility3",
     "descriptionBullet1", "descriptionBullet2", "descriptionBullet3"}

\* the cell of data row j under the k-th numbered bullet header
BulletCell(sheet, j, k) ==
    LET header == ParseHeader(sheet[1][1][1], k)
        column == CHOOSE c \in 1..Len(sheet[2]) : sheet[2][c] = header
    IN sheet[2 + j][column]

\* C10: for every EXPERIENCE, LEADERSHIP and PROJECTS row, whichever of its
\* numbered bullet cells are blank or white space, the item's bullet sequence
\* is exactly the trimmed non-blank cells in column-number order, no element
\* is empty, and the numbered fields are gone from the item.
C10_BulletColumns ==
    pc = "loaded" /\ ~master.isNull =>
        LET title == master.sections[1].title
            items == SectionItems(master.sections[1])
        IN /\ Len(master.sections) = 1
           /\ Len(items) = Len(resumeSheet) - 2
           /\ \A j \in 1..Len(items) :
                LET cells == [k \in 1..NUM_DEDICATED_BULLET_COLUMNS |->
                                 Trim(BulletCell(resumeSheet, j, k))]
                IN /\ ItemBullets(title, items[j])
                        = SelectSeq(cells, LAMBDA t : t # <<>>)
                   /\ \A b \in 1..Len(ItemBullets(title, items[j])) :
                         ItemBullets(title, items[j])[b] # <<>>
                   /\ (DOMAIN items[j]) \cap NumberedFields = {}

\* a row whose first numbered cell is white space, whose columns are not in
\* number order, parsed to the two texts in number order
C10_Witness ==
    /\ pc = "loaded"
    /\ ~master.isNull
    /\ resumeSheet[2][1] # ParseHeader(resumeSheet[1][1][1], 0)
    /\ BulletCell(resumeSheet, 1, 1) = <<WS>>
    /\ ItemBullets(master.sections[1].title, SectionItems(master.sections[1])[1])
          = << <<"a">>, <<"b">> >>

----------------------------------------------------------------------------
(* Properties of the item identifiers *)

\* the master record the stages read
MasterRecord == getMasterResumeData(resumeSheet, FALSE)

\* the natural key of an item: company, project name, organization or else role
NaturalKey(section, item) ==
    CASE section = "EXPERIENCE" -> Get(item, "company")
      [] section = "PROJECTS" -> Get(item, "projectName")
      [] OTHER -> OrElse(Get(item, "organization"), Get(item, "role"))

\* the items of a bullet section, those of PROJECTS across its subsections
BulletItems(record, section) ==
    IF section = "PROJECTS"
    THEN Flatten([s \in 1..Len(SubsectionsOf(record, section)) |->
                     SubsectionsOf(record, section)[s].items])
    ELSE ItemsOf(record, section)

\* natural keys are pairwise distinct within each section (one may be empty)
DistinctKeys(record) ==
    \A section \in BulletSections :
        \A i, j \in 1..Len(BulletItems(record, section)) :
            i # j => NaturalKey(section, BulletItems(record, section)[i])
                        # NaturalKey(section, BulletItems(record, section)[j])

\* the master item whose bullet stage 1 recorded in the row
ItemOfRow(record, row) ==
    IF row.section = "PROJECTS"
    THEN SubsectionsOf(record, row.section)[row.uniqueId.sub + 1].items[row.uniqueId.item + 1]
    ELSE ItemsOf(record, row.section)[row.uniqueId.item + 1]

\* the items stage 3 assembles from the row alone, once it is marked and its
\* score is above the threshold
MatchedItems(record, row, marked) ==
    CASE row.section = "EXPERIENCE" -> TailoredExperienceItems(record, <<marked>>)
      [] row.section = "PROJECTS" ->
            Flatten([s \in 1..Len(TailoredProjectSubsections(record, <<marked>>)) |->
                        TailoredProjectSubsections(record, <<marked>>)[s].items])
      [] OTHER -> TailoredLeadershipItems(record, <<marked>>)

RowMatchesItsItem(record, row) ==
    \E marked \in {[row EXCEPT !.selectToTailor = <<"YES">>, !.relevanceScore = <<100>>]} :
        /\ Len(MatchedItems(record, row, marked)) = 1
        /\ NaturalKey(row.section, MatchedItems(record, row, marked)[1])
              = NaturalKey(row.section, ItemOfRow(record, row))
        /\ MatchedItems(record, row, marked)[1]
              [IF row.section = "PROJECTS" THEN "descriptionBullets" ELSE "responsibilities"]
              = <<getBulletTextToUse(marked)>>

\* C15: when the natural keys of the master items are pairwise distinct
\* within each section (an empty key allowed), every row stage 1 recorded
\* from a bullet of an EXPERIENCE, PROJECTS or LEADERSHIP item is matched by
\* stage 3 to exactly that item.
C15_RowsMatchTheirItem ==
    \A q \in 1..Len(scoringSheet.rows) :
        scoringSheet.rows[q].section \in BulletSections /\ DistinctKeys(MasterRecord)
            => RowMatchesItsItem(MasterRecord, scoringSheet.rows[q])

----------------------------------------------------------------------------
(* Properties of the functions of TailoringLogic.gs *)

\* tailorBulletPoint has returned from a call that passed its preconditions
\* and got a completion that is not an error
Tailored ==
    /\ call.f = "tailorBulletPoint"
    /\ pc = "returned"
    /\ Trim(call.originalBullet) # <<>>
    /\ call.jdAnalysisResults.primaryKeywords
    /\ call.jdAnalysisResults.jobTitle # <<>>
    /\ Trim(call.targetRoleTitle) # <<>>
    /\ call.groqResponse # <<>>
    /\ call.groqResponse[1] # "ERROR:"

IsFence(chunk) == chunk \in {"<fence>json", "<fence>"}

\* a text without its leading and trailing code-fence markers, trimmed
WithoutFences(text) ==
    LET t == Trim(text)
        from == IF t # <<>> /\ IsFence(t[1]) THEN 2 ELSE 1
        to == IF Len(t) >= from /\ IsFence(t[Len(t)]) THEN Len(t) - 1 ELSE Len(t)
    IN Trim(SubSeq(t, from, to))

\* the string value of rewritten_bullet when the text is the JSON object of
\* the prompt, else the empty text
RewrittenBulletIn(text) ==
    IF Len(text) >= 2 /\ text[1] = "{rewritten_bullet:" /\ text[Len(text)] = "}"
    THEN Trim(SubSeq(text, 2, Len(text) - 1))
    ELSE <<>>

\* C13: for every completion that is not an error, tailorBulletPoint strips
\* the leading and trailing code-fence markers, returns the trimmed
\* rewritten_bullet when the rest is JSON with a non-empty string there, and
\* otherwise returns the fence-stripped trimmed text; so what it returns for
\* a fenced sentinel or a fenced plain bullet holds no fence marker.
C13_FencesStripped ==
    Tailored =>
        /\ ret = IF RewrittenBulletIn(WithoutFences(call.groqResponse)) # <<>>
                 THEN RewrittenBulletIn(WithoutFences(call.groqResponse))
                 ELSE WithoutFences(call.groqResponse)
        /\ RewrittenBulletIn(WithoutFences(call.groqResponse)) = <<>>
              => \A k \in 1..Len(ret) : ~IsFence(ret[k])


\* the flag cell as text, trimmed and upper-cased, is one of YES, TRUE, 1, X
FlagPasses(cell) == \E word \in {"YES", "TRUE", "1", "X"} : ToUpperCase(Trim(cell)) = <<word>>

\* C14: stage 2 and stage 3 (for EXPERIENCE, PROJECTS, LEADERSHIP and the
\* TECHNICAL section) select by the same predicate: a row is tailored by
\* stage 2, and kept by stage 3's filter, exactly when its flag cell,
\* trimmed and upper-cased, is one of YES, TRUE, 1, X.
C14_SameSelection ==
    call.f = "selection" /\ pc = "returned" =>
        /\ ret.stage2 = FlagPasses(call.row.selectToTailor)
        /\ ret.stage3 = FlagPasses(call.row.selectToTailor)

C14_Witness ==
    /\ call.f = "selection"
    /\ pc = "returned"
    /\ call.row.selectToTailor = <<WS, "x">>
    /\ call.row.section = "LEADERSHIP & UNIVERSITY INVOLVEMENT"
    /\ ret.stage2
    /\ ret.stage3


\* the summary step of stage 3 has run
SummaryStored == call.f = "summary" /\ pc = "returned"

\* the generator got past its preconditions and got a completion
SummaryGenerated ==
    /\ Trim(Get(call.masterResumeObject.personalInfo, "fullName")) # <<>>
    /\ call.groqResponse # <<>>
    /\ call.groqResponse[1] # "ERROR:"
    /\ ret.tailoredSummary # <<>>

\* C18: the summary stage 3 stores is the trimmed text of the generator when
\* the generation succeeds, and the summary of the master record, unchanged,
\* when the generator returns nothing or an error, a precondition error
\* included.
C18_SummaryOrMasterSummary ==
    SummaryStored =>
        ret.summary = IF SummaryGenerated THEN Trim(ret.tailoredSummary)
                      ELSE call.masterResumeObject.summary

C18_Witness ==
    /\ SummaryStored
    /\ ~SummaryGenerated
    /\ Trim(Get(call.masterResumeObject.personalInfo, "fullName")) = <<>>
    /\ ret.tailoredSummary = <<"ERROR:", " Candidate name empty.">>
    /\ ret.summary = <<"Old", WS, "summary.">>


ListKeys ==
    {"keyResponsibilities", "requiredTechnicalSkills", "requiredSoftSkills",
     "primaryKeywords", "companyCultureClues"}

ScalarKeys == {"jobTitle", "companyName", "location", "experienceLevel", "educationRequirements"}

\* analyzeJobDescription has returned an analysis, not an error
AnalysisReturned ==
    /\ call.f = "analyzeJobDescription"
    /\ pc = "returned"
    /\ ret.error = <<>>

\* C19: every analysis that analyzeJobDescription returns as a success has
\* the ten fixed keys, with a string under each scalar key and a sequence
\* under each list key.
C19_AnalysisHasTenKeys ==
    AnalysisReturned =>
        /\ DOMAIN ret.keys = ScalarKeys \cup ListKeys
        /\ \A k \in ScalarKeys : ret.keys[k] = "string"
        /\ \A k \in ListKeys : ret.keys[k] = "array"


\* C20: every row stage 1 writes has a RelevanceScore between 0 and 1
\* (0 and 100 hundredths), whatever number the LLM gives as relevanceScore.
C20_ScoreWithinRange ==
    call.f = "score" /\ pc = "returned" =>
        /\ ret.relevanceScore[1] >= 0
        /\ ret.relevanceScore[1] <= 100

----------------------------------------------------------------------------
(* Properties of the document *)

\* a step in which stage 3 calls createFormattedResumeDoc
DocumentStep ==
    /\ result'.stage = "3"
    /\ finalRecord'.built
    /\ call'.f = "createFormattedResumeDoc"

\* C16: when createFormattedResumeDoc fails after the copy of the template
\* was made, it attempts to trash the copy and returns null, and stage 3
\* returns success=false without a document URL; when it fails before the
\* copy exists (a missing template), it returns null and makes no document.
C16_FailedDocumentCleanedUp ==
    [][DocumentStep =>
          /\ call'.fault \in {"open", "populate"} =>
                /\ ret' = FALSE
                /\ Len(drive') = Len(drive) + 1
                /\ SubSeq(drive', 1, Len(drive)) = drive
                /\ ~call'.trashFails => drive'[Len(drive')].trashed
                /\ ~result'.success
                /\ ~result'.docUrl
          /\ call'.fault = "template" =>
                /\ ret' = FALSE
                /\ drive' = drive
                /\ ~result'.success
                /\ ~result'.docUrl]_vars

C16_Witness ==
    /\ result.stage = "3"
    /\ finalRecord.built
    /\ call.f = "createFormattedResumeDoc"
    /\ call.fault = "populate"
    /\ ~call.trashFails
    /\ ~result.success
    /\ Len(drive) = 1
    /\ drive[1].trashed


BlockPlaceholders ==
    {"{EDUCATION_ITEMS}", "{EXPERIENCE_JOBS}", "{PROJECT_ITEMS}", "{TECHNICAL_SKILLS_LIST}",
     "{LEADERSHIP_ITEMS}", "{HONORS_LIST}"}

\* the placeholder stands as literal text in the body
StandsIn(body, placeholder) ==
    \E p \in 1..Len(body) : \E c \in 1..Len(body[p]) : body[p][c] = placeholder

\* createFormattedResumeDoc has returned the URL of a finished document
DocumentFinished ==
    /\ call.f = "createFormattedResumeDoc"
    /\ pc = "returned"
    /\ ret = TRUE
    /\ drive # <<>>

\* C17: for every record passed to createFormattedResumeDoc, one with an
\* empty sections list included, and the template with the six block
\* placeholders, the finished document holds none of the six placeholders
\* as literal text.
C17_NoPlaceholderLeft ==
    DocumentFinished =>
        \A placeholder \in BlockPlaceholders :
            ~StandsIn(drive[Len(drive)].body, placeholder)

----------------------------------------------------------------------------
(* C21: the default of an empty date cell *)

\* processAccumulatedSection has normalised the one data row of the call
RowNormalized == call.f = "processAccumulatedSection" /\ pc = "returned"

\* the item the row became: the first item of the section, or of its first
\* subsection
NormalizedItem ==
    LET sec == ret.sections[1]
    IN IF "items" \in DOMAIN sec THEN sec.items[1] ELSE sec.subsections[1].items[1]

\* the cell of the row under the header named, and whether it is empty
CellUnder(header) ==
    LET at == {c \in 1..Len(call.headers) : call.headers[c] = <<header>>}
    IN IF at = {} THEN <<"absent">> ELSE call.dataRows[1][CHOOSE c \in at : TRUE]

EmptyCell(cell) == Trim(cell) = <<>>

\* C21: normalizing a tabular row whose EndDate cell is empty yields an item
\* whose endDate is "Present", while an empty StartDate, Date or IssueDate
\* cell yields an empty value, never "Present".
C21_EmptyEndDateIsPresent ==
    RowNormalized =>
        /\ EmptyCell(CellUnder("EndDate")) => Get(NormalizedItem, "endDate") = <<"Present">>
        /\ EmptyCell(CellUnder("StartDate")) => Get(NormalizedItem, "startDate") = <<>>
        /\ EmptyCell(CellUnder("Date")) => Get(NormalizedItem, "date") = <<>>
        /\ EmptyCell(CellUnder("IssueDate")) => Get(NormalizedItem, "issueDate") = <<>>

\* the part of C21 the code keeps: no empty date cell of the other three
\* columns becomes "Present", and an end date typed as "present" does
C21_OnlyTypedPresent ==
    RowNormalized =>
        /\ \A h \in {"StartDate", "Date", "IssueDate"} :
              EmptyCell(CellUnder(h)) =>
                  Get(NormalizedItem, JsKeyTok(h)) = <<>>
        /\ EmptyCell(CellUnder("EndDate")) => Get(NormalizedItem, "endDate") = <<>>
        /\ ToUpperCase(Trim(CellUnder("EndDate"))) = <<"PRESENT">> =>
              Get(NormalizedItem, "endDate") = <<"Present">>

----------------------------------------------------------------------------
(* C22: the write-back of stage 2 and a concurrent writer *)

\* another writer has set a cell of the table since stage 2 read it
ChangedSinceRead == call.f = "setValue" /\ pc \in {"s2_loop", "returned"}

\* C22: stage 2 reads the whole scoring table once and later writes the whole
\* table back with no lock or version check: when another writer has changed
\* a cell between that read and that write, the write-back leaves the table
\* as stage 2 holds it, the changed cell back at the value stage 2 had read
\* (in the tailored-text column of a selected row, at the text of this run).
C22_WriteBackReplacesChange ==
    [][(/\ ChangedSinceRead
        /\ pc = "s2_loop"
        /\ pc' = "returned"
        /\ scoringSheet' # scoringSheet)
       => /\ scoringSheet'.rows = s2rows
          /\ call.value # s2rows[call.row][call.column]
                => scoringSheet'.rows[call.row][call.column] # call.value
          /\ call.column # "tailoredBulletText"
                => scoringSheet'.rows[call.row][call.column] = s2read[call.row][call.column]]_vars

\* a lost update: the reviewer marked (or unmarked) a row while stage 2 ran,
\* stage 2 has returned, and the flag cell is what it was before the edit
C22_Witness ==
    /\ Stage2Returned
    /\ call.f = "setValue"
    /\ call.column = "selectToTailor"
    /\ call.before # call.value
    /\ scoringSheet.rows[call.row].selectToTailor = call.before
    /\ result.success

----------------------------------------------------------------------------
(* C23: the skills section of the final record *)

\* the skills step has run over the table of the call
SkillsAssembled == call.f = "skills" /\ pc = "returned"

\* the rows of the table that pass both filters
PassingSkillRows ==
    {i \in 1..Len(call.allScoredBulletRows) :
        /\ call.allScoredBulletRows[i].section = "TECHNICAL SKILLS & CERTIFICATES"
        /\ RowPasses(call.allScoredBulletRows[i])}

\* the category and the item row i stands for: the master skill or
\* certificate stage 1 created the row from (its UniqueID names the place),
\* or the minimal skill under 'Uncategorized' when the identifier matches no
\* skill or certificate of the master record stage 3 reads
ExpectedSkill(i) ==
    LET row == call.allScoredBulletRows[i]
        subs == SubsectionsOf(call.masterAtStage1, "TECHNICAL SKILLS & CERTIFICATES")
        sub == subs[row.uniqueId.sub + 1]
    IN IF FoundTechItem(call.masterResumeObject, row.itemIdentifier) = <<0, 0>>
       THEN [category |-> <<"Uncategorized">>,
             item |-> [skill |-> row.originalBulletText, details |-> <<>>]]
       ELSE [category |-> sub.name, item |-> sub.items[row.uniqueId.item + 1]]

\* the places of the skills section that hold the item under the category
PlacesOf(expected) ==
    {place \in UNION {{<<s, p>> : p \in 1..Len(ret[s].items)} : s \in 1..Len(ret)} :
        /\ ret[place[1]].name = expected.category
        /\ ret[place[1]].items[place[2]] = expected.item}

SkillItemsInRecord ==
    UNION {{<<s, p>> : p \in 1..Len(ret[s].items)} : s \in 1..Len(ret)}

\* C23: each TECHNICAL SKILLS & CERTIFICATES row with score >= threshold and
\* a truthy selection flag yields exactly one item in the final record's
\* skills section, and no other row yields any: the item equals the master
\* skill or certificate the row was created from and sits in the subsection
\* named after its category; a row whose identifier matches no master skill
\* or certificate yields {skill: the row's original text, details: empty}
\* under 'Uncategorized'.
C23_OneItemPerSelectedSkill ==
    SkillsAssembled =>
        /\ Cardinality(SkillItemsInRecord) = Cardinality(PassingSkillRows)
        /\ \A i \in PassingSkillRows :
              Cardinality(PlacesOf(ExpectedSkill(i)))
                 = Cardinality({j \in PassingSkillRows : ExpectedSkill(j) = ExpectedSkill(i)})

\* the part of C23 the code keeps: when a row passes, the section has as
\* many items as passing rows, each the first master skill or certificate of
\* the row's identifier under that item's category, or the minimal skill
\* under 'Uncategorized'
C23_OneItemPerRowByName ==
    SkillsAssembled /\ PassingSkillRows # {} =>
        /\ Cardinality(SkillItemsInRecord) = Cardinality(PassingSkillRows)
        /\ \A i \in PassingSkillRows :
              LET row == call.allScoredBulletRows[i]
                  found == FoundTechItem(call.masterResumeObject, row.itemIdentifier)
                  subs == SubsectionsOf(call.masterResumeObject,
                                        "TECHNICAL SKILLS & CERTIFICATES")
              IN IF found = <<0, 0>>
                 THEN PlacesOf(ExpectedSkill(i)) # {}
                 ELSE PlacesOf([category |-> subs[found[1]].name,
                                item |-> subs[found[1]].items[found[2]]]) # {}

----------------------------------------------------------------------------
(* C24: stage 2 and stage 3 before stage 1 has completed *)

\* the JD-analysis table or the scoring table is missing, or the stored JD
\* analysis is empty or has no job title
Stage1NeverCompleted ==
    \/ ~jdSheet.exists
    \/ ~scoringSheet.exists
    \/ jdSheet.a2.blank
    \/ JSONparse(jdSheet.a2).jobTitle = <<>>

----------------------------------------------------------------------------
(* C25: what stage 3 leaves alone *)

\* C25: runStage3_BuildAndGenerateDocument never writes to the resume sheet,
\* the JD-analysis table or the scoring table: all three are identical
\* before and after any stage-3 run, whether it succeeds or fails.
C25_Stage3WritesNoSheet ==
    [][Stage3Run => /\ resumeSheet' = resumeSheet
                    /\ jdSheet' = jdSheet
                    /\ scoringSheet' = scoringSheet]_vars

\* stage 3 has made a document from a scoring table that holds a marked row
C25_Witness ==
    /\ pc = "returned"
    /\ result.stage = "3"
    /\ result.success
    /\ drive # <<>>
    /\ \E i \in 1..Len(scoringSheet.rows) : IsSelected(scoringSheet.rows[i].selectToTailor)

----------------------------------------------------------------------------
(* C26, C30: the sections of the parsed record, and the row loop *)

\* the record getMasterResumeData returned
ResumeLoaded == pc = "loaded" /\ ~master.isNull

\* the section titles in the rows of the sheet, in order
TitlesInSheet ==
    SelectSeq([i \in 1..Len(resumeSheet) |->
                  getCanonicalSectionTitle(Trim(CellAt(resumeSheet[i], 1)))],
              LAMBDA title : title # Null)

\* C26: for every sequence of sheet rows, including one in which the same
\* section title appears as a header more than once, the record returned by
\* getMasterResumeData has no two sections with the same title, and every
\* section title is one of the six tabular canonical titles.
C26_SectionTitlesUnique ==
    ResumeLoaded =>
        /\ \A j, k \in 1..Len(master.sections) :
              master.sections[j].title = master.sections[k].title => j = k
        /\ \A k \in 1..Len(master.sections) : master.sections[k].title \in TABULAR_SECTIONS

\* a sheet with the title Experience twice: the record has the section once,
\* with the items found under both
C26_Witness ==
    /\ ResumeLoaded
    /\ \E j, k \in 1..Len(TitlesInSheet) :
          j # k /\ TitlesInSheet[j] = TitlesInSheet[k] /\ TitlesInSheet[j] = "EXPERIENCE"
    /\ \E k \in 1..Len(master.sections) :
          /\ master.sections[k].title = "EXPERIENCE"
          /\ Len(master.sections[k].items) = 2

\* the loop is in a tabular section and has data rows in its buffer
BufferHoldsRows ==
    /\ pc = "scan"
    /\ isTabularSection(ret.st.currentSectionTitleKey)
    /\ ret.st.currentSectionRawData # <<>>

\* C30: while getMasterResumeData scans the rows, a data row is appended to
\* a tabular section's buffer only when that section has a non-empty
\* header-name row; so for no input is the 'data rows but no headers'
\* abandon branch taken, nor is processAccumulatedSection ever called with
\* data rows and an empty header list (the calls take the section, the
\* headers and the buffer as the loop holds them).
C30_RowsOnlyUnderHeaders ==
    /\ BufferHoldsRows =>
          \E h \in 1..Len(ret.st.currentSectionHeaders) :
              ret.st.currentSectionHeaders[h] # <<>>
    /\ pc = "scan" => ret.st.abandoned = 0

\* the loop holds a data row under the headers found past a blank row
C30_Witness ==
    /\ BufferHoldsRows
    /\ Len(ret.st.currentSectionRawData) = 1
    /\ rowIsEffectivelyBlank(resumeSheet[2])
    /\ ret.st.currentSectionHeaders = << <<"Company">>, <<"Responsibility1">> >>

----------------------------------------------------------------------------
(* C27: the cleanup pass of createFormattedResumeDoc *)

\* the body of the document the call made, and the body as it was filled,
\* before cleanupAllEmptyLines ran
FinishedBody == drive[Len(drive)].body
FilledBody ==
    PopulatedBody(PopulatedHeader(TemplateBody, call.resumeDataObject),
                  call.resumeDataObject)

\* the positions of the paragraphs of a body whose text is empty or white
\* space only
BlankParagraphs(body) == {p \in 1..Len(body) : isVisuallyEmpty(body[p])}

\* an empty paragraph stands between two entries of the experience block:
\* the spacer before an entry after the first
SpacerInserted ==
    \E p \in 2..(Len(FilledBody) - 1) :
        /\ FilledBody[p] = <<>>
        /\ FilledBody[p - 1] \in {<<"Built X">>, <<"Ran Z">>}
        /\ FilledBody[p + 1] \in {<<"Acme">>, <<"Beta">>}

C27_LastParagraphKept ==
    /\ DocumentFinished
    /\ SpacerInserted
    /\ BlankParagraphs(FinishedBody) = {Len(FinishedBody)}

----------------------------------------------------------------------------
(* C28: the identifiers of the rows of one stage-1 run *)

\* the loops of stage 1 have scored the units of the record of the call
Stage1RowsBuilt == call.f = "stage1Rows" /\ pc = "returned"

\* C28: the UniqueID values of the rows one stage-1 run writes are pairwise
\* distinct, whatever the master record: entries with equal names, entries
\* without a name, bullet lists with blank entries.
C28_UniqueIdsDistinct ==
    Stage1RowsBuilt =>
        \A i, j \in 1..Len(ret) :
            i # j => UniqueIdText(ret[i].uniqueId) # UniqueIdText(ret[j].uniqueId)

\* rows were built for two entries of the same name, each with the bullet
\* of the same index
C28_Witness ==
    /\ Stage1RowsBuilt
    /\ \E i, j \in 1..Len(ret) :
          /\ i # j
          /\ ret[i].itemIdentifier = ret[j].itemIdentifier
          /\ ret[i].uniqueId.item # ret[j].uniqueId.item
          /\ ret[i].uniqueId.bullet = ret[j].uniqueId.bullet

\* rows were built for two projects without a name, the second with one
\* bullet only
C28_WitnessUnnamed ==
    /\ Stage1RowsBuilt
    /\ Len(ret) = 3
    /\ \A i \in 1..3 : ret[i].uniqueId.name = <<"NoName">>
    /\ ret[2].uniqueId.item = 0
    /\ ret[3].uniqueId.item = 1

----------------------------------------------------------------------------
(* C29: the count stage 2 returns and the table *)

\* runStage2_TailorSelectedBullets has returned success
Stage2Succeeded == pc = "returned" /\ result.stage = "2" /\ result.success

\* the rows this run tailored successfully: marked when read, and given a
\* text other than the failure note by the loop
TailoredThisRun ==
    {i \in 1..Len(s2rows) :
        /\ IsSelected(s2read[i].selectToTailor)
        /\ ~StartsWith(s2rows[i].tailoredBulletText, "TAILOR_FAIL")}

\* those of them whose text stands in the table
HeldInTable ==
    {i \in TailoredThisRun :
        /\ i <= Len(scoringSheet.rows)
        /\ scoringSheet.rows[i].tailoredBulletText = s2rows[i].tailoredBulletText}

\* C29: whenever stage 2 returns success=true with bulletsTailored = n, the
\* scoring table holds the tailored text this run produced in exactly n
\* rows, also when the batch write-back fails.
C29_CountMatchesTable ==
    Stage2Succeeded => Cardinality(HeldInTable) = result.bulletsTailored

\* what holds instead: n is the number of rows the loop tailored, whether
\* or not they reached the table
C29_CountMatchesLoop ==
    Stage2Succeeded => Cardinality(TailoredThisRun) = result.bulletsTailored

\* stage 2 returned a count of one and the table holds the text
C29_Written ==
    /\ Stage2Succeeded
    /\ result.bulletsTailored = 1
    /\ Cardinality(HeldInTable) = 1

====
